---- MODULE Spec2Model ----
(***************************************************************************)
(* Model of the dynamic-db framework: the permission rule evaluator and    *)
(* authorization gate (framework/rlsManager.ts), the data endpoints of the *)
(* Framework class, and the query compiler (QueryHandler.buildQuery).      *)
(***************************************************************************)
EXTENDS Integers, Sequences, FiniteSets, TLC

VARIABLES
  rules,        \* evaluatePermission: the PermissionRule[] argument
  userContext,  \* evaluatePermission: the UserContext argument
  row,          \* evaluatePermission: the row argument
  access,       \* evaluatePermission: "pending", or what the call produced
  permStore,    \* PermissionService: the rows of table_permissions
  gatePc,       \* enforcePermissions: where the call in flight stands
  gateCall,     \* enforcePermissions: its arguments
  tablePermissions, \* enforcePermissions: what getPermissionsForTable gave
  gateResult,   \* enforcePermissions: what the call returned or threw
  enforceRls,   \* Framework: config.enforceRls
  req,          \* Framework: the data request being served
  fwPc,         \* Framework: where its handler stands
  records,      \* Framework: the rows hooks.query gave the handler
  issued,       \* storage: the writes issued while serving the request
  response,     \* Framework: what the handler returned or threw
  params,       \* buildQuery: the QueryParams argument
  query,        \* buildQuery: the calls made on the query builder, in order
  buildPc,      \* buildQuery: the section of the function about to run
  buildResult,  \* buildQuery: "pending", then how the call ended
  ir,           \* validateQuery: the QueryParams being validated
  vRules,       \* validateQuery: params.validation.rules
  violations,   \* QueryMiddleware.validateQuery: the list it returned
  clientViolations, \* QueryValidator.validateQuery: the list it returned
  score,        \* calculateQueryComplexity: the number it returned
  cache,        \* QueryCache: the Map of entries
  now,          \* Date.now()
  lastGet,      \* QueryCache.get: the latest call and what it returned
  lastInvalidated, \* QueryCache.invalidateByTags: the latest call
  setLog,       \* QueryCache.set: when each key was last set, with what ttl
  redis,        \* Redis: the cached results and the tag sets
  mw,           \* QueryMiddleware.executeQuery: each call in flight
  inv,          \* QueryMiddleware.invalidateCacheTags: the call in flight
  compileIn,    \* parseQueryParams / buildQuery: the value being compiled
  compileOut,   \* parseQueryParams / buildQuery: what came out of it
  schema        \* endpoints.schema.create: where the call is, and whether
                \* the gate call in flight started after it returned

evalVars == <<rules, userContext, row, access>>
gateVars == <<permStore, gatePc, gateCall, tablePermissions, gateResult>>
fwVars == <<enforceRls, req, fwPc, records, issued, response>>

buildVars == <<params, query, buildPc, buildResult>>

valVars == <<ir, vRules, violations, clientViolations, score>>

\* the state of the analyzer, the caches and the middleware
\* the state of the evaluator, the gate, the endpoints and the compiler
coreVars == <<evalVars, gateVars, fwVars, buildVars>>

cacheVars == <<cache, now, lastGet, lastInvalidated, setLog>>

mwVars == <<redis, mw, inv>>

compileVars == <<compileIn, compileOut>>

layerVars == <<valVars, cacheVars, mwVars, compileVars, schema>>

vars == <<evalVars, gateVars, fwVars, buildVars, layerVars>>

(***************************************************************************)
(* Bounds of the model.                                                    *)
(***************************************************************************)
MaxRules == 2
MaxRows == 2
MaxClauses == 2

(***************************************************************************)
(* JavaScript values.  A scalar is a record [tag, v]; an array is a record *)
(* [tag |-> "array", items].  An object is a function whose domain is the  *)
(* set of its own keys, so that a missing key reads as undefined.          *)
(***************************************************************************)
Undefined == [tag |-> "undefined", v |-> ""]
Num(s) == [tag |-> "number", v |-> s]
Str(s) == [tag |-> "string", v |-> s]
Arr(items) == [tag |-> "array", items |-> items]

\* obj[key] of an object that may lack the key
Get(obj, key) == IF key \in DOMAIN obj THEN obj[key] ELSE Undefined

IsArray(x) == x.tag = "array"

\* x === y : scalars by type and value; two distinct arrays are never identical
StrictEq(x, y) ==
  /\ x.tag = y.tag
  /\ x.tag # "array"
  /\ x.v = y.v

\* the falsy values among those the model uses: undefined, 0, ""
Truthy(x) ==
  CASE x.tag = "undefined" -> FALSE
    [] x.tag = "number" -> x.v # "0"
    [] x.tag = "string" -> x.v # ""
    [] OTHER -> TRUE

\* arr.includes(x) on an array of scalars
Includes(items, x) == \E i \in 1..Len(items) : StrictEq(items[i], x)

\* a.some(e => b.includes(e)) on two string[]
SomeIncluded(a, b) == \E i \in 1..Len(a) : \E j \in 1..Len(b) : a[i] = b[j]

(***************************************************************************)
(* UserContext: userId (number | string, possibly missing), labels, teams, *)
(* role?, permissions?.                                                    *)
(***************************************************************************)
UserIds == {Undefined, Num("0"), Num("5")}
Roles == {"", "admin", "user"}       \* "" stands for a context without role
LabelSets == {<<>>, <<"vip">>}
TeamSets == {<<>>, <<"eng">>}

Users ==
  [userId : UserIds, role : Roles, labels : LabelSets, teams : TeamSets]

\* userContext[key] for key: UserContextFields (or any other name)
UserField(u, key) ==
  CASE key = "userId" -> u.userId
    [] key = "role" -> IF u.role = "" THEN Undefined ELSE Str(u.role)
    [] key = "labels" -> Arr([i \in 1..Len(u.labels) |-> Str(u.labels[i])])
    [] key = "teams" -> Arr([i \in 1..Len(u.teams) |-> Str(u.teams[i])])
    [] OTHER -> Undefined

(***************************************************************************)
(* Rows: objects with an id and possibly an ownerId.                       *)
(***************************************************************************)
EmptyRow == [k \in {} |-> Undefined]
RowOf(id, owner) == [id |-> Num(id), ownerId |-> Num(owner)]
RowNoOwner(id) == [id |-> Num(id)]
EvalRows == {EmptyRow, RowOf("1", "5"), RowOf("2", "9")}

(***************************************************************************)
(* PermissionRule values: a tag `allow` and the payload fields present.    *)
(***************************************************************************)
OwnerIsUser ==
  [field |-> "ownerId", operator |-> "===", valueType |-> "userContext",
   value |-> Str("userId")]
OwnerInFive ==
  [field |-> "ownerId", operator |-> "in", valueType |-> "static",
   value |-> Arr(<<Num("5")>>)]
OwnerNotNine ==
  [field |-> "ownerId", operator |-> "!==", valueType |-> "static",
   value |-> Num("9")]
OwnerNotInFive ==
  [field |-> "ownerId", operator |-> "notIn", valueType |-> "static",
   value |-> Arr(<<Num("5")>>)]

\* a customSql template: whether the string is empty, and the :name
\* placeholders the regular expression /:([a-zA-Z_]+)/g finds in it, in order
SqlOwner == [empty |-> FALSE, refs |-> <<"userId">>]
SqlPlain == [empty |-> FALSE, refs |-> <<>>]

RuleUniverse ==
  { [allow |-> "public"],
    [allow |-> "private"],
    [allow |-> "role"],
    [allow |-> "role", roles |-> <<>>],
    [allow |-> "role", roles |-> <<"admin">>],
    [allow |-> "auth"],
    [allow |-> "guest"],
    [allow |-> "guest", labels |-> <<"vip">>],
    [allow |-> "labels"],
    [allow |-> "labels", labels |-> <<"vip">>],
    [allow |-> "teams", teams |-> <<"ops">>],
    [allow |-> "teams", teams |-> <<"ops", "eng">>],
    [allow |-> "static", static |-> TRUE],
    [allow |-> "static", static |-> FALSE],
    [allow |-> "static"],
    [allow |-> "fieldCheck", fieldCheck |-> OwnerIsUser],
    [allow |-> "fieldCheck", fieldCheck |-> OwnerInFive],
    [allow |-> "fieldCheck", fieldCheck |-> OwnerNotNine],
    [allow |-> "fieldCheck", fieldCheck |-> OwnerNotInFive],
    [allow |-> "customSql", customSql |-> SqlOwner],
    [allow |-> "customSql", customSql |-> SqlPlain] }

SeqsUpTo(S, n) == UNION {[1..k -> S] : k \in 0..n}

(***************************************************************************)
(* evaluatePermission, one rule: what the body of the for loop does with   *)
(* one rule.  "Allow" is `return true`, "Deny" is `return false`,          *)
(* "Continue" is `break` out of the switch (on to the next rule), "Throw"  *)
(* is the Error raised by the customSql replacer.                          *)
(***************************************************************************)
\* a labels case that denies when the sets are disjoint
CaseLabelsDeny(rule, u) ==
  IF "labels" \in DOMAIN rule /\ SomeIncluded(u.labels, rule.labels)
  THEN "Allow" ELSE "Deny"

CaseLabels(rule, u) ==
  IF "labels" \in DOMAIN rule /\ SomeIncluded(u.labels, rule.labels)
  THEN "Allow" ELSE "Continue"

\* case "guest": no break after the if, control falls into case "labels"
CaseGuest(rule, u) ==
  IF ~Truthy(u.userId) THEN "Allow" ELSE CaseLabels(rule, u)

\* case "auth": no break after the if, control falls into case "guest"
CaseAuth(rule, u) ==
  IF Truthy(u.userId) THEN "Allow" ELSE CaseGuest(rule, u)

\* a role case that allows any user who has a role
CaseRoleAnyRole(rule, u) ==
  IF "roles" \notin DOMAIN rule \/ Len(rule.roles) = 0 THEN "Deny"
  ELSE IF u.role # "" THEN "Allow" ELSE "Deny"

CaseRole(rule, u) ==
  IF "roles" \notin DOMAIN rule \/ Len(rule.roles) = 0 THEN "Deny"
  ELSE IF u.role # "" /\ (\E i \in 1..Len(rule.roles) : rule.roles[i] = u.role)
       THEN "Allow" ELSE "Deny"

CaseTeams(rule, u) ==
  IF "teams" \in DOMAIN rule /\ SomeIncluded(u.teams, rule.teams)
  THEN "Allow" ELSE "Continue"

CaseStatic(rule) ==
  IF "static" \in DOMAIN rule
  THEN (IF rule.static THEN "Allow" ELSE "Deny")
  ELSE "Continue"

CaseFieldCheck(rule, u, r) ==
  IF "fieldCheck" \notin DOMAIN rule THEN "Continue"
  ELSE
    LET fc == rule.fieldCheck
        dataValue == Get(r, fc.field)
        comparisonValue ==
          IF fc.valueType = "userContext"
          THEN UserField(u, fc.value.v) ELSE fc.value
        hit ==
          CASE fc.operator = "===" -> StrictEq(dataValue, comparisonValue)
            [] fc.operator = "!==" -> ~StrictEq(dataValue, comparisonValue)
            [] fc.operator = "in" ->
                 IsArray(comparisonValue)
                 /\ Includes(comparisonValue.items, dataValue)
            [] fc.operator = "notIn" ->
                 IsArray(comparisonValue)
                 /\ ~Includes(comparisonValue.items, dataValue)
            [] OTHER -> FALSE
    IN IF hit THEN "Allow" ELSE "Continue"

\* a customSql case that never raises
CaseCustomSqlLenient(rule, u) ==
  IF "customSql" \notin DOMAIN rule \/ rule.customSql.empty THEN "Continue"
  ELSE "Allow"

CaseCustomSql(rule, u) ==
  IF "customSql" \notin DOMAIN rule \/ rule.customSql.empty THEN "Continue"
  ELSE IF \E i \in 1..Len(rule.customSql.refs) :
            UserField(u, rule.customSql.refs[i]).tag = "undefined"
       THEN "Throw"
       ELSE "Allow"

RuleOutcome(rule, u, r) ==
  CASE rule.allow = "public" -> "Allow"
    [] rule.allow = "private" -> "Deny"
    [] rule.allow = "role" -> CaseRole(rule, u)
    [] rule.allow = "auth" -> CaseAuth(rule, u)
    [] rule.allow = "guest" -> CaseGuest(rule, u)
    [] rule.allow = "labels" -> CaseLabels(rule, u)
    [] rule.allow = "teams" -> CaseTeams(rule, u)
    [] rule.allow = "static" -> CaseStatic(rule)
    [] rule.allow = "fieldCheck" -> CaseFieldCheck(rule, u, r)
    [] rule.allow = "customSql" -> CaseCustomSql(rule, u)
    [] OTHER -> "Continue"

(***************************************************************************)
(* evaluatePermission: the for loop over the rules from index i on.  The   *)
(* result is "true", "false", or "throw" when a rule raised.               *)
(***************************************************************************)
RECURSIVE ScanFrom(_, _, _, _)
ScanFrom(rs, i, u, r) ==
  IF i > Len(rs) THEN "false"
  ELSE LET o == RuleOutcome(rs[i], u, r)
       IN CASE o = "Allow" -> "true"
            [] o = "Deny" -> "false"
            [] o = "Throw" -> "throw"
            [] OTHER -> ScanFrom(rs, i + 1, u, r)

\* a scan in which any allowing rule wins, wherever it stands in the list
evaluateAnyAllow(rs, u, r) ==
  IF \E i \in 1..Len(rs) : RuleOutcome(rs[i], u, r) = "Allow" THEN "true"
  ELSE IF \E i \in 1..Len(rs) : RuleOutcome(rs[i], u, r) = "Throw" THEN "throw"
  ELSE "false"

\* a scan that allows when it runs off the end of the list
RECURSIVE ScanDefaultAllow(_, _, _, _)
ScanDefaultAllow(rs, i, u, r) ==
  IF i > Len(rs) THEN "true"
  ELSE LET o == RuleOutcome(rs[i], u, r)
       IN CASE o = "Allow" -> "true"
            [] o = "Deny" -> "false"
            [] o = "Throw" -> "throw"
            [] OTHER -> ScanDefaultAllow(rs, i + 1, u, r)

evaluateDefaultAllow(rs, u, r) == ScanDefaultAllow(rs, 1, u, r)

evaluatePermission(rs, u, r) == ScanFrom(rs, 1, u, r)

(***************************************************************************)
(* PermissionService: table_permissions maps a table name to the JSON text *)
(* of its TablePermissions.  A TablePermissions is modelled by its         *)
(* `operations` object, a function from the operations that have an entry  *)
(* to their rule lists; JSON.stringify drops the undefined entries and     *)
(* JSON.parse gives back the entries that are left, so a stored value and  *)
(* the value read back have the same entries.                              *)
(***************************************************************************)
Tables == {"posts"}
Operations == {"SELECT", "INSERT", "UPDATE", "DELETE"}

NotFound == [found |-> FALSE]
Found(perms) == [found |-> TRUE, operations |-> perms.operations]

\* a getPermissionsForTable that answers from a copy taken at start-up
getPermissionsForTableCached(store, tableName) ==
  Found([operations |-> [o \in Operations |-> <<[allow |-> "public"]>>]])

\* getPermissionsForTable: undefined when the table has no row
getPermissionsForTable(store, tableName) ==
  IF tableName \in DOMAIN store THEN Found(store[tableName]) ELSE NotFound

\* setPermissionsForTable: insert ... onConflict(table_name).merge()
setPermissionsForTable(store, tableName, perms) ==
  [t \in DOMAIN store \cup {tableName} |->
     IF t = tableName THEN perms ELSE store[t]]

\* deletePermissionsForTable
deletePermissionsForTable(store, tableName) ==
  [t \in DOMAIN store \ {tableName} |-> store[t]]

EmptyStore == [t \in {} |-> [operations |-> <<>>]]

(***************************************************************************)
(* enforcePermissions after the await: lines 135-161.  `rows` is what the  *)
(* caller passed: [array |-> TRUE, items |-> the rows], or, when the       *)
(* caller passed a single object, [array |-> FALSE, items |-> <<object>>]. *)
(***************************************************************************)
\* what a call produced, with the row arguments of the evaluatePermission
\* calls it made, in order
RowsResult(rows, evals) == [kind |-> "rows", rows |-> rows, evals |-> evals]
ErrorResult(e, evals) == [kind |-> "error", error |-> e, evals |-> evals]

HasFieldCheck(rs) == \E i \in 1..Len(rs) : rs[i].allow = "fieldCheck"

\* rows.filter(row => evaluatePermission(rules, userContext, row)): the rows
\* are visited in order, and the first evaluation that throws ends the call
RECURSIVE FilterRows(_, _, _, _)
FilterRows(rs, u, items, i) ==
  IF i > Len(items) THEN RowsResult([array |-> TRUE, items |-> <<>>], <<>>)
  ELSE LET a == evaluatePermission(rs, u, items[i])
       IN IF a = "throw" THEN ErrorResult("MissingContext", <<items[i]>>)
          ELSE LET rest == FilterRows(rs, u, items, i + 1)
                   seen == <<items[i]>> \o rest.evals
               IN IF rest.kind = "error" THEN ErrorResult(rest.error, seen)
                  ELSE IF a = "true"
                       THEN RowsResult([array |-> TRUE,
                                        items |-> <<items[i]>> \o rest.rows.items],
                                       seen)
                       ELSE RowsResult(rest.rows, seen)

\* the access check of a rule list without fieldCheck, mistakenly inverted
WholeOperationInverted(rs, u, rows) ==
  LET a == evaluatePermission(rs, u, EmptyRow)
  IN CASE a = "throw" -> ErrorResult("MissingContext", <<EmptyRow>>)
       [] a = "true" -> ErrorResult("AccessDenied", <<EmptyRow>>)
       [] OTHER -> RowsResult(rows, <<EmptyRow>>)

\* lines 149-157: one evaluation, against the empty row
WholeOperation(rs, u, rows) ==
  LET a == evaluatePermission(rs, u, EmptyRow)
  IN CASE a = "throw" -> ErrorResult("MissingContext", <<EmptyRow>>)
       [] a = "false" -> ErrorResult("AccessDenied", <<EmptyRow>>)
       [] OTHER -> RowsResult(rows, <<EmptyRow>>)

\* a per-row filter that keeps the rows the rules reject
PerRowInverted(rs, u, rows) ==
  IF ~rows.array THEN ErrorResult("TypeError", <<>>)
  ELSE RowsResult([array |-> TRUE,
         items |-> SelectSeq(rows.items,
                     LAMBDA r : evaluatePermission(rs, u, r) # "true")],
         rows.items)

\* lines 159-161: rows.filter is not a function when rows is no array
PerRow(rs, u, rows) ==
  IF ~rows.array THEN ErrorResult("TypeError", <<>>)
  ELSE FilterRows(rs, u, rows.items, 1)

\* an empty rule list treated like a missing entry
DecideEmptyDenied(tp, operation, rows, u) ==
  IF ~tp.found \/ operation \notin DOMAIN tp.operations
  THEN ErrorResult("OperationNotAllowed", <<>>)
  ELSE LET rs == tp.operations[operation]
       IN IF Len(rs) = 0 THEN ErrorResult("OperationNotAllowed", <<>>)
          ELSE IF ~HasFieldCheck(rs) THEN WholeOperation(rs, u, rows)
          ELSE PerRow(rs, u, rows)

\* lines 135-161
Decide(tp, operation, rows, u) ==
  IF ~tp.found \/ operation \notin DOMAIN tp.operations
  THEN ErrorResult("OperationNotAllowed", <<>>)
  ELSE LET rs == tp.operations[operation]
       IN IF Len(rs) = 0 THEN RowsResult(rows, <<>>)
          ELSE IF ~HasFieldCheck(rs) THEN WholeOperation(rs, u, rows)
          ELSE PerRow(rs, u, rows)

NoCall ==
  [tableName |-> "posts", operation |-> "SELECT",
   rows |-> [array |-> TRUE, items |-> <<>>],
   user |-> [userId |-> Undefined, role |-> "", labels |-> <<>>, teams |-> <<>>]]
NoResult == [kind |-> "none"]

\* line 131: the await of permissionService.getPermissionsForTable
GateFetch ==
  /\ gatePc = "fetch"
  /\ tablePermissions' = getPermissionsForTable(permStore, gateCall.tableName)
  /\ gatePc' = "decide"
  /\ UNCHANGED <<permStore, gateCall, gateResult>>

\* lines 135-161: the rest of the call runs without suspending
GateDecide ==
  /\ gatePc = "decide"
  /\ gateResult' = Decide(tablePermissions, gateCall.operation,
                          gateCall.rows, gateCall.user)
  /\ gatePc' = "done"
  /\ UNCHANGED <<permStore, gateCall, tablePermissions>>

GateIdle ==
  /\ permStore = EmptyStore
  /\ gatePc = "idle"
  /\ gateCall = NoCall
  /\ tablePermissions = NotFound
  /\ gateResult = NoResult

(***************************************************************************)
(* The gate on its own: one enforcePermissions call with arguments and a   *)
(* stored policy drawn from the bounded sets.                              *)
(***************************************************************************)
GateRules ==
  { [allow |-> "public"],
    [allow |-> "private"],
    [allow |-> "labels", labels |-> <<"vip">>],
    [allow |-> "fieldCheck", fieldCheck |-> OwnerIsUser],
    [allow |-> "fieldCheck", fieldCheck |-> OwnerInFive],
    [allow |-> "customSql", customSql |-> SqlOwner] }

OwnerOnlyRules == <<[allow |-> "fieldCheck", fieldCheck |-> OwnerIsUser]>>

GateUsers ==
  [userId : UserIds, role : {""}, labels : LabelSets, teams : {<<>>}]

\* row lists of the given length: row i has id i and an owner, or none
RowChoices(i) ==
  CASE i = 1 -> {RowOf("1", "5"), RowOf("1", "9"), RowNoOwner("1")}
    [] i = 2 -> {RowOf("2", "5"), RowOf("2", "9"), RowNoOwner("2")}
    [] i = 3 -> {RowOf("3", "5"), RowOf("3", "9"), RowNoOwner("3")}
    [] OTHER -> {RowOf("4", "5"), RowOf("4", "9"), RowNoOwner("4")}

RowLists(n) ==
  UNION { {f \in [1..k -> UNION {RowChoices(i) : i \in 1..k}] :
             \A i \in 1..k : f[i] \in RowChoices(i)} : k \in 0..n }

\* the policies: no row for the table, or a row whose operations all carry
\* the same rule list, with or without an entry for the operation asked
GateStores(operation) ==
  {EmptyStore}
  \cup { [t \in Tables |-> [operations |-> [o \in D |-> rs]]] :
           D \in {Operations, Operations \ {operation}},
           rs \in SeqsUpTo(GateRules, MaxRules) }

GateInit ==
  /\ \E operation \in Operations :
       /\ permStore \in GateStores(operation)
       /\ \E u \in GateUsers, items \in RowLists(MaxRows) :
            gateCall = [tableName |-> "posts", operation |-> operation,
                        rows |-> [array |-> TRUE, items |-> items], user |-> u]
  /\ gatePc = "fetch"
  /\ tablePermissions = NotFound
  /\ gateResult = NoResult

(***************************************************************************)
(* Framework.endpoints.data: query, create, update, delete.  A handler     *)
(* runs up to each await in one step.  `req.user` is the optional user     *)
(* argument: req.hasUser tells whether it was given.                       *)
(***************************************************************************)
\* Framework.defaultPermissions
defaultPermissions ==
  [operations |-> [o \in Operations |-> <<[allow |-> "public"]>>]]

FwPolicies ==
  { defaultPermissions,
    [operations |-> [o \in Operations |-> OwnerOnlyRules]],
    [operations |-> [o \in Operations |-> <<[allow |-> "private"]>>]],
    [operations |-> [o \in {"SELECT"} |-> <<[allow |-> "public"]>>]],
    [operations |-> [o \in Operations |-> <<>>]] }

FwStores == {EmptyStore} \cup {[t \in Tables |-> p] : p \in FwPolicies}

FwUsers ==
  [userId : {Undefined, Num("5")}, role : {""}, labels : {<<>>}, teams : {<<>>}]

\* the `data` of a mutation: an array of records, or one record
Payloads ==
  {[array |-> TRUE, items |-> l] : l \in RowLists(MaxRows)}
  \cup {[array |-> FALSE, items |-> <<r>>] : r \in RowChoices(1) \cup {EmptyRow}}

NoRequest ==
  [kind |-> "none", hasUser |-> FALSE, user |-> NoCall.user,
   data |-> [array |-> TRUE, items |-> <<>>]]

\* hooks.mutate(tableName, action, ...): the write is handed to storage
hooksMutate(log, action, payload) ==
  Append(log, [action |-> action, payload |-> payload])

\* `return enforcePermissions(tableName, operation, rows, user)`
CallGate(operation, rows, user) ==
  /\ gateCall' = [tableName |-> "posts", operation |-> operation,
                  rows |-> rows, user |-> user]
  /\ gatePc' = "fetch"
  /\ gateResult' = NoResult
  /\ tablePermissions' = NotFound
  /\ fwPc' = "gate"
  /\ UNCHANGED <<permStore, response>>

GateUntouched == UNCHANGED <<permStore, gatePc, gateCall, tablePermissions>>

\* data.query up to `await this.hooks.query(...)`
DataQuery ==
  /\ fwPc = "idle"
  /\ \E hasUser \in BOOLEAN, u \in FwUsers :
       req' = [kind |-> "query", hasUser |-> hasUser,
               user |-> IF hasUser THEN u ELSE NoCall.user,
               data |-> NoRequest.data]
  /\ fwPc' = "query"
  /\ UNCHANGED <<enforceRls, records, issued, response, gateVars>>

\* data.query from the rows of hooks.query on: lines 177-181
DataQueryReturns ==
  /\ fwPc = "query" /\ req.kind = "query"
  /\ \E rs \in RowLists(MaxRows) : records' = [array |-> TRUE, items |-> rs]
  /\ IF enforceRls /\ req.hasUser
     THEN /\ CallGate("SELECT", records', req.user)
          /\ UNCHANGED <<enforceRls, req, issued>>
     ELSE /\ response' = RowsResult(records', <<>>)
          /\ fwPc' = "done"
          /\ gateResult' = NoResult
          /\ GateUntouched
          /\ UNCHANGED <<enforceRls, req, issued>>

\* lines 198-206: every record is an object with at least one key
ValidRecords(items) ==
  /\ Len(items) > 0
  /\ \A i \in 1..Len(items) : DOMAIN items[i] # {}

\* data.create: lines 187-223
DataCreate ==
  /\ fwPc = "idle"
  /\ \E hasUser \in BOOLEAN, u \in FwUsers, data \in Payloads :
       /\ req' = [kind |-> "create", hasUser |-> hasUser,
                  user |-> IF hasUser THEN u ELSE NoCall.user, data |-> data]
       /\ LET recs == [array |-> TRUE, items |-> data.items]
          IN /\ records' = recs
             /\ IF ~ValidRecords(recs.items)
                THEN /\ response' = ErrorResult("InvalidRequestBody", <<>>)
                     /\ fwPc' = "done"
                     /\ gateResult' = NoResult
                     /\ GateUntouched
                     /\ UNCHANGED <<enforceRls, issued>>
                ELSE IF enforceRls /\ hasUser
                THEN /\ CallGate("INSERT", recs, u)
                     /\ UNCHANGED <<enforceRls, issued>>
                ELSE /\ issued' = hooksMutate(issued, "create", recs)
                     /\ response' = [kind |-> "written", evals |-> <<>>]
                     /\ fwPc' = "done"
                     /\ gateResult' = NoResult
                     /\ GateUntouched
                     /\ UNCHANGED enforceRls

\* data.update: lines 225-246; `data` goes to the gate as it came
DataUpdate ==
  /\ fwPc = "idle"
  /\ \E hasUser \in BOOLEAN, u \in FwUsers, data \in Payloads :
       /\ req' = [kind |-> "update", hasUser |-> hasUser,
                  user |-> IF hasUser THEN u ELSE NoCall.user, data |-> data]
       /\ records' = data
       /\ IF enforceRls /\ hasUser
          THEN /\ CallGate("UPDATE", data, u)
               /\ UNCHANGED <<enforceRls, issued>>
          ELSE /\ issued' = hooksMutate(issued, "update", data)
               /\ response' = [kind |-> "written", evals |-> <<>>]
               /\ fwPc' = "done"
               /\ gateResult' = NoResult
               /\ GateUntouched
               /\ UNCHANGED enforceRls

\* data.delete up to `await this.hooks.query(...)`: lines 248-260
DataDelete ==
  /\ fwPc = "idle"
  /\ \E hasUser \in BOOLEAN, u \in FwUsers :
       req' = [kind |-> "delete", hasUser |-> hasUser,
               user |-> IF hasUser THEN u ELSE NoCall.user,
               data |-> NoRequest.data]
  /\ fwPc' = "query"
  /\ UNCHANGED <<enforceRls, records, issued, response, gateVars>>

\* data.delete from the record on: lines 262-271; where({id}) finds the
\* record or nothing
DataDeleteReturns ==
  /\ fwPc = "query" /\ req.kind = "delete"
  /\ \E rs \in RowLists(1) : records' = [array |-> TRUE, items |-> rs]
  /\ IF enforceRls /\ req.hasUser
     THEN /\ CallGate("DELETE", records', req.user)
          /\ UNCHANGED <<enforceRls, req, issued>>
     ELSE /\ issued' = hooksMutate(issued, "delete", records')
          /\ response' = [kind |-> "written", evals |-> <<>>]
          /\ fwPc' = "done"
          /\ gateResult' = NoResult
          /\ GateUntouched
          /\ UNCHANGED <<enforceRls, req>>

\* the promise of enforcePermissions settles: the handler's result is its
\* result
GateReturns ==
  /\ fwPc = "gate" /\ gatePc = "done"
  /\ response' = gateResult
  /\ fwPc' = "done"
  /\ gatePc' = "idle"
  /\ UNCHANGED <<enforceRls, req, records, issued,
                 permStore, gateCall, tablePermissions, gateResult>>

\* the response is sent; the server takes the next request
Respond ==
  /\ fwPc = "done"
  /\ fwPc' = "idle"
  /\ req' = NoRequest
  /\ records' = NoRequest.data
  /\ issued' = <<>>
  /\ response' = NoResult
  /\ gateCall' = NoCall
  /\ tablePermissions' = NotFound
  /\ gateResult' = NoResult
  /\ UNCHANGED <<enforceRls, permStore, gatePc>>

\* permissions.set: lines 288-303
PermissionsSet ==
  /\ \E p \in FwPolicies :
       permStore' = setPermissionsForTable(permStore, "posts", p)
  /\ UNCHANGED <<gatePc, gateCall, tablePermissions, gateResult, fwVars>>

FwIdle ==
  /\ enforceRls = FALSE
  /\ req = NoRequest
  /\ fwPc = "off"
  /\ records = NoRequest.data
  /\ issued = <<>>
  /\ response = NoResult

FwInit ==
  /\ enforceRls \in BOOLEAN
  /\ permStore \in FwStores
  /\ req = NoRequest
  /\ fwPc = "idle"
  /\ records = NoRequest.data
  /\ issued = <<>>
  /\ response = NoResult
  /\ gatePc = "idle"
  /\ gateCall = NoCall
  /\ tablePermissions = NotFound
  /\ gateResult = NoResult

(***************************************************************************)
(* Framework.endpoints.schema.create beside enforcePermissions calls.      *)
(* schema.pc is where the create call is: "none" before it, "creating"     *)
(* while createTableIfNotExists is awaited, "returned" once the handler    *)
(* has returned with the insert of the default permissions in flight, and  *)
(* "stored" once that insert has completed.                                *)
(***************************************************************************)
SchemaInit ==
  /\ schema = [pc |-> "none", callAfterReturn |-> FALSE]
  /\ permStore \in FwStores
  /\ gatePc = "idle"
  /\ gateCall = NoCall
  /\ tablePermissions = NotFound
  /\ gateResult = NoResult

\* schema.create up to `await ...createTableIfNotExists(...)`: lines 106-118
SchemaCreate ==
  /\ schema.pc = "none"
  /\ schema' = [schema EXCEPT !.pc = "creating"]
  /\ UNCHANGED gateVars

\* lines 120-128: setPermissionsForTable is called, its promise is dropped,
\* and the handler returns
SchemaCreateReturns ==
  /\ schema.pc = "creating"
  /\ schema' = [schema EXCEPT !.pc = "returned"]
  /\ UNCHANGED gateVars

\* the insert of setPermissionsForTable completes
PermissionsInsertLands ==
  /\ schema.pc = "returned"
  /\ permStore' = setPermissionsForTable(permStore, "posts", defaultPermissions)
  /\ schema' = [schema EXCEPT !.pc = "stored"]
  /\ UNCHANGED <<gatePc, gateCall, tablePermissions, gateResult>>

\* enforcePermissions is called: lines 125-130, up to the await of the read
enforcePermissionsStarts ==
  /\ gatePc \in {"idle", "done"}
  /\ \E operation \in Operations, u \in FwUsers, items \in RowLists(1) :
       gateCall' = [tableName |-> "posts", operation |-> operation,
                    rows |-> [array |-> TRUE, items |-> items], user |-> u]
  /\ gatePc' = "fetch"
  /\ tablePermissions' = NotFound
  /\ gateResult' = NoResult
  /\ schema' = [schema EXCEPT
                  !.callAfterReturn = schema.pc \in {"returned", "stored"}]
  /\ UNCHANGED permStore

SchemaIdle == schema = [pc |-> "off", callAfterReturn |-> FALSE]

(***************************************************************************)
(* QueryHandler.buildQuery.  The QueryParams are an object: a function     *)
(* from the fields that are present to their values.  `query` is the log   *)
(* of the calls buildQuery makes on the builder it was given: the method,  *)
(* the section of buildQuery that made the call, and the argument.  A      *)
(* callback argument (with, withRecursive, the grouped where) is recorded  *)
(* by what it closes over; the builder runs it, not buildQuery.            *)
(***************************************************************************)
\* the sections of buildQuery in program order: lines 159-348
ClauseOrderLimitFirst ==
  << "ctes", "recursiveCtes", "windowFunctions", "advancedWindows", "filter",
     "rawExpressions", "aggregates", "whereRaw", "whereBetween", "whereNull",
     "whereNotNull", "whereIn", "whereNotIn", "whereExists", "whereGroups",
     "groupBy", "having", "limit", "orderBy", "offset" >>

ClauseOrder ==
  << "ctes", "recursiveCtes", "windowFunctions", "advancedWindows", "filter",
     "rawExpressions", "aggregates", "whereRaw", "whereBetween", "whereNull",
     "whereNotNull", "whereIn", "whereNotIn", "whereExists", "whereGroups",
     "groupBy", "having", "orderBy", "limit", "offset" >>

\* the sections that make one builder call per element of a list
PerItemKinds ==
  { "ctes", "recursiveCtes", "windowFunctions", "advancedWindows",
    "rawExpressions", "whereRaw", "whereBetween", "whereNull", "whereNotNull",
    "whereIn", "whereNotIn", "whereExists", "whereGroups", "having", "orderBy" }

\* the builder method each of those sections calls
MethodOf(kind) ==
  CASE kind = "ctes" -> "with"
    [] kind = "recursiveCtes" -> "withRecursive"
    [] kind \in {"windowFunctions", "advancedWindows"} -> "select"
    [] kind = "rawExpressions" -> "whereRaw"
    [] kind \in {"whereRaw", "whereGroups"} -> "where"
    [] OTHER -> kind

Call(method, kind, arg) == [method |-> method, kind |-> kind, arg |-> arg]

KnownAggregates == {"count", "sum", "avg", "min", "max"}

\* lines 238-257: `alias || type_field`, then the switch on the type, which
\* has no default branch
AggregateCalls(a) ==
  LET column == IF "alias" \in DOMAIN a THEN <<a.alias>>
                ELSE <<a.type, "_", a.field>>
  IN IF a.type \in KnownAggregates
     THEN <<Call(a.type, "aggregates", [field |-> a.field, as |-> column])>>
     ELSE <<>>

RECURSIVE AggregatesFrom(_, _)
AggregatesFrom(list, i) ==
  IF i > Len(list) THEN <<>>
  ELSE AggregateCalls(list[i]) \o AggregatesFrom(list, i + 1)

\* list.forEach(item => query = query.method(item))
PerItem(kind, list) ==
  [i \in 1..Len(list) |-> Call(MethodOf(kind), kind, list[i])]

\* the builder calls of one section, given the params
SectionCalls(kind, p) ==
  IF kind \notin DOMAIN p THEN <<>>
  ELSE CASE kind \in PerItemKinds -> PerItem(kind, p[kind])
         [] kind = "aggregates" -> AggregatesFrom(p[kind], 1)
         [] kind = "filter" -> <<Call("where", kind, p[kind])>>
         [] kind = "groupBy" -> <<Call("groupBy", kind, p[kind])>>
         [] kind \in {"limit", "offset"} ->
              IF p[kind] # 0 THEN <<Call(kind, kind, p[kind])>> ELSE <<>>
         [] OTHER -> <<>>

\* one section of buildQuery
BuildStep ==
  /\ buildPc \in 1..Len(ClauseOrder)
  /\ query' = query \o SectionCalls(ClauseOrder[buildPc], params)
  /\ buildPc' = buildPc + 1
  /\ UNCHANGED <<params, buildResult>>

\* line 372: `return query`
BuildReturn ==
  /\ buildPc = Len(ClauseOrder) + 1
  /\ buildResult = "pending"
  /\ buildResult' = "returned"
  /\ UNCHANGED <<params, query, buildPc>>

(***************************************************************************)
(* The QueryParams the model draws: at most two fields present, each list  *)
(* with at most MaxClauses elements.                                       *)
(***************************************************************************)
Fields == {ClauseOrder[i] : i \in 1..Len(ClauseOrder)}

\* element i of the list of a field: a clause that names its place
Item(kind, i) ==
  CASE kind = "ctes" ->
         [name |-> <<"cte", i>>, query |-> [params |-> [limit |-> 5]]]
    [] kind = "recursiveCtes" ->
         [name |-> <<"rcte", i>>, initialQuery |-> [params |-> [limit |-> 1]],
          recursiveQuery |-> [params |-> [offset |-> 1]], unionAll |-> TRUE]
    [] OTHER -> [clause |-> kind, n |-> i]

AggregateTypes == <<"count", "sum", "avg", "min", "max", "median">>

\* n aggregates whose types run through AggregateTypes from place `start`
AggregateList(start, n) ==
  [i \in 1..n |->
     [type |-> AggregateTypes[((start + i - 2) % Len(AggregateTypes)) + 1],
      field |-> "price"]]

FieldOptions(f) ==
  CASE f = "aggregates" ->
         {<<>>, <<[type |-> "sum", field |-> "price", alias |-> "total"]>>}
         \cup {AggregateList(start, n) :
                 start \in 1..Len(AggregateTypes), n \in 1..MaxClauses}
    [] f = "filter" -> {[k \in {} |-> ""], [status |-> "active"]}
    [] f \in {"limit", "offset"} -> {0, 5}
    [] OTHER -> {[i \in 1..n |-> Item(f, i)] : n \in 0..MaxClauses}

\* the params with the fields f and g (one field when f = g) present, or
\* with no field at all: the order of the calls is a matter of two calls,
\* so of two fields
ParamsWith(f, g) ==
  {[k \in {f, g} |-> IF k = f THEN v ELSE w] :
     v \in FieldOptions(f), w \in FieldOptions(g)}

QueryParams ==
  {[k \in {} |-> 0]} \cup UNION {ParamsWith(f, g) : f \in Fields, g \in Fields}

BuildInit ==
  /\ params \in QueryParams
  /\ query = <<>>
  /\ buildPc = 1
  /\ buildResult = "pending"

BuildIdle ==
  /\ params = [k \in {} |-> 0]
  /\ query = <<>>
  /\ buildPc = 0
  /\ buildResult = "idle"

(***************************************************************************)
(* QueryMiddleware.validateQuery, hasField and calculateQueryComplexity,   *)
(* and the client's QueryValidator.  The IR is an object: a function from  *)
(* the keys present to their values; limit and the thresholds are numbers, *)
(* filter maps a field to a literal, whereIn / whereNotIn map a field to   *)
(* an array, the other clause lists are sequences.  A violation is the     *)
(* message pushed, kept as the rule it is about and what it interpolates.  *)
(***************************************************************************)
\* QueryMiddleware.hasField: !!(a || b || ...), where obj?.[field] is the
\* value there taken as a condition, items?.some(w => w.field === field)
\* looks through an optional list of clauses and list?.includes(field)
\* through an optional list of field names
hasField(p, field) ==
  LET TruthyAt(key) ==
        key \in DOMAIN p /\ field \in DOMAIN p[key] /\ Truthy(p[key][field])
      SomeField(key) ==
        key \in DOMAIN p /\ \E i \in 1..Len(p[key]) : p[key][i].field = field
      ListIncludes(key) ==
        key \in DOMAIN p /\ \E i \in 1..Len(p[key]) : p[key][i] = field
  IN \/ TruthyAt("filter")
     \/ SomeField("whereRaw")
     \/ SomeField("whereBetween")
     \/ TruthyAt("whereIn")
     \/ TruthyAt("whereNotIn")
     \/ ListIncludes("whereNull")
     \/ ListIncludes("whereNotNull")

\* (list?.length || 0)
LengthOf(p, key) == IF key \in DOMAIN p THEN Len(p[key]) ELSE 0

\* Object.keys(obj || {}).length
KeyCount(p, key) == IF key \in DOMAIN p THEN Cardinality(DOMAIN p[key]) ELSE 0

\* calculateNestedComplexity, in halves: 1.5 per direct clause of each
\* group, plus the same for the groups among a group's clauses
RECURSIVE calculateNestedComplexity(_)
calculateNestedComplexity(groups) ==
  IF Len(groups) = 0 THEN 0
  ELSE LET group == Head(groups)
           SubGroups ==
             IF "clauses" \in DOMAIN group
             THEN SelectSeq(group.clauses, LAMBDA c : "clauses" \in DOMAIN c)
             ELSE <<>>
       IN 3 * (IF "clauses" \in DOMAIN group THEN Len(group.clauses) ELSE 0)
          + (IF Len(SubGroups) > 0
             THEN calculateNestedComplexity(SubGroups) ELSE 0)
          + calculateNestedComplexity(Tail(groups))

\* a score that counts a groupBy once, however many fields it groups
calculateQueryComplexityGroupByOnce(p) ==
  2 * LengthOf(p, "whereRaw")
  + 3 * LengthOf(p, "whereBetween")
  + 4 * KeyCount(p, "whereIn")
  + 6 * LengthOf(p, "whereExists")
  + 4 * (IF LengthOf(p, "groupBy") > 0 THEN 1 ELSE 0)
  + 4 * LengthOf(p, "having")
  + 6 * LengthOf(p, "windowFunctions")
  + (IF "whereGroups" \in DOMAIN p
     THEN calculateNestedComplexity(p.whereGroups) ELSE 0)

\* calculateQueryComplexity, in halves (the weights are 1, 1.5, 2, 3, 2, 2,
\* 3): twice the number the code computes
calculateQueryComplexity(p) ==
  2 * LengthOf(p, "whereRaw")
  + 3 * LengthOf(p, "whereBetween")
  + 4 * KeyCount(p, "whereIn")
  + 6 * LengthOf(p, "whereExists")
  + 4 * LengthOf(p, "groupBy")
  + 4 * LengthOf(p, "having")
  + 6 * LengthOf(p, "windowFunctions")
  + (IF "whereGroups" \in DOMAIN p
     THEN calculateNestedComplexity(p.whereGroups) ELSE 0)

\* a number taken as a condition: present and not 0
TruthyNumber(obj, key) == key \in DOMAIN obj /\ obj[key] # 0

Violation(rule, detail) == [rule |-> rule, detail |-> detail]

\* lines 86-90
CheckMaxLimit(p, rs) ==
  IF TruthyNumber(rs, "maxLimit") /\ TruthyNumber(p, "limit")
     /\ p.limit > rs.maxLimit
  THEN <<Violation("maxLimit", <<rs.maxLimit>>)>> ELSE <<>>

\* lines 93-100
CheckRequiredFields(p, rs) ==
  IF "requiredFields" \notin DOMAIN rs THEN <<>>
  ELSE LET missingFields ==
             SelectSeq(rs.requiredFields, LAMBDA f : ~hasField(p, f))
       IN IF Len(missingFields) > 0
          THEN <<Violation("requiredFields", missingFields)>> ELSE <<>>

\* lines 103-114
CheckDisallowedFields(p, rs) ==
  IF "disallowedFields" \notin DOMAIN rs THEN <<>>
  ELSE LET presentDisallowedFields ==
             SelectSeq(rs.disallowedFields, LAMBDA f : hasField(p, f))
       IN IF Len(presentDisallowedFields) > 0
          THEN <<Violation("disallowedFields", presentDisallowedFields)>>
          ELSE <<>>

\* lines 117-124; the score is in halves, so the threshold is doubled
CheckMaxComplexity(p, rs) ==
  IF TruthyNumber(rs, "maxComplexity")
     /\ calculateQueryComplexity(p) > 2 * rs.maxComplexity
  THEN <<Violation("maxComplexity",
                   <<calculateQueryComplexity(p), rs.maxComplexity>>)>>
  ELSE <<>>

\* QueryMiddleware.validateQuery, given params and params.validation.rules
validateQuery(p, rs) ==
  CheckMaxLimit(p, rs) \o CheckRequiredFields(p, rs)
    \o CheckDisallowedFields(p, rs) \o CheckMaxComplexity(p, rs)

\* QueryValidator.hasField (frontend-sdk.ts): `return true`
QueryValidator_hasField(p, field) == TRUE

\* QueryValidator.validateQuery (frontend-sdk.ts): maxLimit and
\* requiredFields only
QueryValidator_validateQuery(p, rs) ==
  CheckMaxLimit(p, rs)
  \o (IF "requiredFields" \notin DOMAIN rs THEN <<>>
      ELSE LET missingFields ==
                 SelectSeq(rs.requiredFields,
                           LAMBDA f : ~QueryValidator_hasField(p, f))
           IN IF Len(missingFields) > 0
              THEN <<Violation("requiredFields", missingFields)>> ELSE <<>>)

(***************************************************************************)
(* The analyzer as a machine: an IR and a rule set drawn from the bounded  *)
(* sets, and one step per function applied to them.                        *)
(***************************************************************************)
Clause(field) == [field |-> field, operator |-> "=", value |-> Num("1")]

\* the values the model draws for one key of the IR; the whereGroups are a
\* group of two plain clauses, and a group holding a clause and a group
IrOptions(key) ==
  LET FlatGroup ==
        [type |-> "AND", clauses |-> <<Clause("status"), Clause("ownerId")>>]
      NestedGroup ==
        [type |-> "OR",
         clauses |-> <<Clause("status"),
                       [type |-> "AND", clauses |-> <<Clause("ownerId")>>]>>]
      GroupFields == <<"status", "ownerId", "region", "year">>
  IN CASE key = "limit" -> {0, 5, 10}
       [] key = "filter" ->
            { [ownerId |-> Num("0")], [ownerId |-> Num("5")],
              [status |-> Str("active")], [status |-> Str("")] }
       [] key = "whereRaw" ->
            {[i \in 1..n |-> Clause("ownerId")] : n \in 1..MaxClauses}
            \cup {<<Clause("status")>>}
       [] key = "whereBetween" -> {<<Clause("ownerId")>>, <<Clause("status")>>}
       [] key \in {"whereIn", "whereNotIn"} ->
            {[ownerId |-> Arr(<<Num("5")>>)], [status |-> Arr(<<>>)]}
       [] key \in {"whereNull", "whereNotNull"} -> {<<"ownerId">>, <<"status">>}
       [] key = "groupBy" ->
            {SubSeq(GroupFields, 1, n) : n \in 1..(MaxClauses + 1)}
       [] key = "whereGroups" -> {<<FlatGroup>>, <<NestedGroup>>, <<>>}
       [] OTHER -> {<<[raw |-> key]>>}

IrKeys ==
  { "limit", "filter", "whereRaw", "whereBetween", "whereIn", "whereNotIn",
    "whereNull", "whereNotNull", "whereExists", "groupBy", "having",
    "windowFunctions", "whereGroups" }

\* the IRs with the keys f and g (one key when f = g), and the empty IR
IrsWith(f, g) ==
  {[k \in {f, g} |-> IF k = f THEN v ELSE w] :
     v \in IrOptions(f), w \in IrOptions(g)}

ValidatedIrs ==
  {[k \in {} |-> 0]} \cup UNION {IrsWith(f, g) : f \in IrKeys, g \in IrKeys}

\* QueryValidation['rules']: each rule present or not
RuleOptions(key) ==
  CASE key = "maxLimit" -> {0, 5}
    [] key = "requiredFields" -> {<<>>, <<"status">>, <<"status", "ownerId">>}
    [] key = "disallowedFields" -> {<<"ownerId">>}
    [] OTHER -> {0, 1, 4}

RuleKeys == {"maxLimit", "requiredFields", "disallowedFields", "maxComplexity"}

\* the object with one more key
Extend(obj, key, v) ==
  [k \in DOMAIN obj \cup {key} |-> IF k = key THEN v ELSE obj[k]]

\* each object of S as it is, and with the key set to each of its options
WithRule(S, key) == S \cup {Extend(r, key, v) : r \in S, v \in RuleOptions(key)}

ValidationRules ==
  WithRule(WithRule(WithRule(WithRule({[k \in {} |-> 0]}, "maxLimit"),
                             "requiredFields"), "disallowedFields"),
           "maxComplexity")

NotRun == [done |-> FALSE]
Returned(v) == [done |-> TRUE, value |-> v]

ValInit ==
  /\ ir \in ValidatedIrs
  /\ vRules \in ValidationRules
  /\ violations = NotRun
  /\ clientViolations = NotRun
  /\ score = NotRun

\* QueryMiddleware.validateQuery(params)
Validate ==
  /\ ~violations.done
  /\ violations' = Returned(validateQuery(ir, vRules))
  /\ UNCHANGED <<ir, vRules, clientViolations, score>>

\* QueryValidator.validateQuery(params, rules)
ClientValidate ==
  /\ ~clientViolations.done
  /\ clientViolations' = Returned(QueryValidator_validateQuery(ir, vRules))
  /\ UNCHANGED <<ir, vRules, violations, score>>

\* QueryMiddleware.calculateQueryComplexity(params)
Complexity ==
  /\ ~score.done
  /\ score' = Returned(calculateQueryComplexity(ir))
  /\ UNCHANGED <<ir, vRules, violations, clientViolations>>

ValIdle ==
  /\ ir = [k \in {} |-> 0]
  /\ vRules = [k \in {} |-> 0]
  /\ violations = NotRun
  /\ clientViolations = NotRun
  /\ score = NotRun

(***************************************************************************)
(* QueryCache (frontend-sdk.ts): a Map from key to {data, expires, tags}.  *)
(* `now` is Date.now(), in milliseconds.  The Map is a function whose      *)
(* domain is the set of keys it holds.                                     *)
(***************************************************************************)
MsPerSecond == 1000

Null == [tag |-> "null", v |-> ""]

EmptyMap == [k \in {} |-> Null]

\* map.delete(key)
Without(map, key) == [k \in DOMAIN map \ {key} |-> map[k]]

\* tags.some(tag => entry.tags.includes(tag))
SharesTag(tags, entry) ==
  \E i \in 1..Len(tags) : \E j \in 1..Len(entry.tags) : tags[i] = entry.tags[j]

\* QueryCache.set
QueryCache_set(map, key, data, ttl, tags, t) ==
  Extend(map, key,
         [data |-> data, expires |-> t + ttl * MsPerSecond, tags |-> tags])

\* QueryCache.get: what it returns and the Map it leaves
QueryCache_get(map, key, t) ==
  IF key \notin DOMAIN map THEN [result |-> Null, cache |-> map]
  ELSE IF t > map[key].expires
       THEN [result |-> Null, cache |-> Without(map, key)]
       ELSE [result |-> map[key].data, cache |-> map]

\* QueryCache.invalidateByTags: deleting from a Map while iterating over it
\* visits every entry that was there
QueryCache_invalidateByTags(map, tags) ==
  [k \in {key \in DOMAIN map : ~SharesTag(tags, map[key])} |-> map[k]]

CacheKeys == {"k1", "k2"}
InvalidatedTags == {<<>>, <<"t1">>, <<"t2">>, <<"t2", "t1">>}
MaxTime == 1500

NotCalled == [called |-> FALSE]

CacheInit ==
  /\ cache = EmptyMap
  /\ now = 0
  /\ lastGet = NotCalled
  /\ lastInvalidated = NotCalled
  /\ setLog = EmptyMap

\* cache.set(key, data, ttl, tags)
CacheSet ==
  /\ \E key \in CacheKeys, data \in {Str("a"), Str("b")}, ttl \in {0, 1},
        tags \in {<<>>, <<"t1">>, <<"t1", "t2">>} :
       /\ cache' = QueryCache_set(cache, key, data, ttl, tags, now)
       /\ setLog' = Extend(setLog, key,
                            [at |-> now, ttl |-> ttl, data |-> data])
  /\ lastGet' = NotCalled
  /\ lastInvalidated' = NotCalled
  /\ UNCHANGED now

\* cache.get(key); lastGet keeps the key, the time, the entry found and
\* what was returned
CacheGet ==
  /\ \E key \in CacheKeys :
       LET got == QueryCache_get(cache, key, now)
       IN /\ cache' = got.cache
          /\ lastGet' = [called |-> TRUE, key |-> key, at |-> now,
                         found |-> key \in DOMAIN cache,
                         tags |-> IF key \in DOMAIN cache
                                  THEN cache[key].tags ELSE <<>>,
                         result |-> got.result]
  /\ UNCHANGED <<now, lastInvalidated, setLog>>

\* cache.invalidateByTags(tags); lastInvalidated keeps the tags and the keys
\* deleted
CacheInvalidate ==
  /\ \E tags \in InvalidatedTags :
       /\ cache' = QueryCache_invalidateByTags(cache, tags)
       /\ lastInvalidated' = [called |-> TRUE, tags |-> tags,
                              removed |-> DOMAIN cache \ DOMAIN cache']
  /\ lastGet' = NotCalled
  /\ UNCHANGED <<now, setLog>>

\* time passes
Tick ==
  /\ \E dt \in {500, 1000} :
       /\ now + dt <= MaxTime
       /\ now' = now + dt
  /\ lastGet' = NotCalled
  /\ UNCHANGED <<cache, lastInvalidated, setLog>>

CacheIdle ==
  /\ cache = EmptyMap
  /\ now = 0
  /\ lastGet = NotCalled
  /\ lastInvalidated = NotCalled
  /\ setLog = EmptyMap

(***************************************************************************)
(* QueryMiddleware.executeQuery, its cache in Redis, and                   *)
(* invalidateCacheTags.  `redis.kv` holds the string keys (key -> what     *)
(* setex stored, with the tags of the cacheResult call that stored it kept *)
(* beside it for the record), `redis.sets` the tag sets (`tag:<t>` -> its  *)
(* members; a set that was deleted is absent).  Every await is a step      *)
(* boundary; `mw[r].effects` lists what request r has done to Redis and to *)
(* the storage engine so far.                                              *)
(***************************************************************************)
Requests == {"r1"}

\* generateCacheKey; JSON.stringify(params) leaves out a function-valued
\* property (cache.condition)
generateCacheKey(p) ==
  LET json == IF "cache" \in DOMAIN p /\ "condition" \in DOMAIN p.cache
              THEN Extend(p, "cache", Without(p.cache, "condition"))
              ELSE p
  IN IF "cache" \in DOMAIN p /\ "key" \in DOMAIN p.cache /\ p.cache.key # ""
     THEN "query:" \o p.cache.key
     ELSE "query:" \o ToString(json)

\* cacheConfig.tags, or no tags when the config has none
TagsOf(p) == IF "tags" \in DOMAIN p.cache THEN p.cache.tags ELSE <<>>

\* cacheConfig.condition?.(params) ?? true
shouldCache(p) ==
  IF "condition" \in DOMAIN p.cache THEN p.cache.condition ELSE TRUE

\* redis.smembers(`tag:${tag}`)
smembers(sets, tag) == IF tag \in DOMAIN sets THEN sets[tag] ELSE {}

\* redis.sadd(`tag:${tag}`, key)
sadd(sets, tag, key) == Extend(sets, tag, smembers(sets, tag) \cup {key})

\* a setex that leaves a key that is already there as it is
setexIfAbsent(kv, key, value) ==
  IF key \in DOMAIN kv THEN kv ELSE Extend(kv, key, value)

\* redis.setex(key, ttl, value): the key now holds the value
setex(kv, key, value) == Extend(kv, key, value)

\* redis.del(...keys)
del(kv, keys) == [k \in DOMAIN kv \ keys |-> kv[k]]

\* the QueryParams executeQuery is called with: with no validation and each
\* CacheConfig, and with validation rules where the limit is over maxLimit,
\* within it, a disallowed field is filtered on 0, or maxLimit is 0
MwRequests ==
  LET OverLimit ==
        [limit |-> 10,
         validation |-> [rules |-> [maxLimit |-> 5], suggestions |-> FALSE]]
      WithinLimit ==
        [limit |-> 5,
         validation |-> [rules |-> [maxLimit |-> 5], suggestions |-> TRUE]]
      FalsyFilter ==
        [filter |-> [ownerId |-> Num("0")],
         validation |-> [rules |-> [disallowedFields |-> <<"ownerId">>],
                         suggestions |-> FALSE]]
      ZeroMaxLimit ==
        [limit |-> 5,
         validation |-> [rules |-> [maxLimit |-> 0], suggestions |-> TRUE]]
      TaggedOnce == [ttl |-> 60, key |-> "q1", tags |-> <<"t1">>]
      TaggedTwice == [ttl |-> 60, key |-> "q2", tags |-> <<"t1", "t2">>]
      CacheConfigs ==
        { [ttl |-> 60, key |-> "q1"], TaggedOnce, TaggedTwice,
          [ttl |-> 60, key |-> "q2", tags |-> <<"t2">>, condition |-> FALSE],
          [ttl |-> 60, tags |-> <<"t2">>, condition |-> TRUE] }
  IN {EmptyMap, [explain |-> [analyze |-> TRUE]]}
     \cup {[cache |-> c] : c \in CacheConfigs}
     \cup {OverLimit, ZeroMaxLimit,
           Extend(OverLimit, "cache", TaggedOnce),
           Extend(WithinLimit, "cache", TaggedOnce),
           Extend(FalsyFilter, "cache", TaggedTwice)}

MwIdleState ==
  [pc |-> "idle", req |-> EmptyMap, effects |-> <<>>, result |-> NoResult,
   data |-> Null, tagsLeft |-> <<>>]

InvIdleState ==
  [pc |-> "idle", tags |-> <<>>, idx |-> 0, keys |-> {}, clean |-> TRUE]

\* the step after validation: steps 2, 3 and 4 of executeQuery
AfterValidation(p) ==
  IF "cache" \in DOMAIN p THEN "lookup"
  ELSE IF "validation" \in DOMAIN p /\ p.validation.suggestions THEN "suggest"
  ELSE "run"

AfterLookup(p) ==
  IF "validation" \in DOMAIN p /\ p.validation.suggestions THEN "suggest"
  ELSE "run"

\* request r with its record changed
MwSet(r, rec) == mw' = [mw EXCEPT ![r] = rec]

\* a cache write during an invalidation, or after it and before the next
NoteWrite == inv' = IF inv.pc = "idle" THEN inv ELSE [inv EXCEPT !.clean = FALSE]

\* executeQuery is called: line 34
MwStart(r) ==
  /\ mw[r].pc = "idle"
  /\ \E p \in MwRequests :
       MwSet(r, [MwIdleState EXCEPT
                   !.req = p,
                   !.pc = IF "validation" \in DOMAIN p THEN "validate"
                          ELSE AfterValidation(p)])
  /\ UNCHANGED <<redis, inv>>

\* step 1, lines 35-38
MwValidate(r) ==
  /\ mw[r].pc = "validate"
  /\ LET p == mw[r].req
         found == validateQuery(p, p.validation.rules)
     IN IF Len(found) > 0
        THEN MwSet(r, [mw[r] EXCEPT
                         !.pc = "done",
                         !.result = [kind |-> "error",
                                     error |-> "ValidationFailed",
                                     violations |-> found]])
        ELSE MwSet(r, [mw[r] EXCEPT !.pc = AfterValidation(p)])
  /\ UNCHANGED <<redis, inv>>

\* step 2, lines 42-47 with getCachedResult
MwLookup(r) ==
  /\ mw[r].pc = "lookup"
  /\ LET p == mw[r].req
         cacheKey == generateCacheKey(p)
         did == Append(mw[r].effects, "cacheGet")
     IN IF cacheKey \in DOMAIN redis.kv
        THEN MwSet(r, [mw[r] EXCEPT
                         !.pc = "done", !.effects = did,
                         !.result = [kind |-> "cached",
                                     data |-> redis.kv[cacheKey].data,
                                     tags |-> redis.kv[cacheKey].tags]])
        ELSE MwSet(r, [mw[r] EXCEPT !.pc = AfterLookup(p), !.effects = did])
  /\ UNCHANGED <<redis, inv>>

\* step 3, lines 50-58: getOptimizationSuggestions runs queryBuilder.explain()
MwSuggest(r) ==
  /\ mw[r].pc = "suggest"
  /\ MwSet(r, [mw[r] EXCEPT !.pc = "run",
                            !.effects = Append(mw[r].effects, "explain")])
  /\ UNCHANGED <<redis, inv>>

\* step 4, lines 61-66: the plan of the query, or its rows
MwRun(r) ==
  /\ mw[r].pc = "run"
  /\ \E rows \in {Str("rows1"), Str("rows2")} :
       LET p == mw[r].req
           did == Append(mw[r].effects,
                         IF "explain" \in DOMAIN p THEN "explainQuery"
                         ELSE "query")
       IN IF "cache" \in DOMAIN p
          THEN MwSet(r, [mw[r] EXCEPT !.pc = "store", !.effects = did,
                                      !.data = rows])
          ELSE MwSet(r, [mw[r] EXCEPT
                           !.pc = "done", !.effects = did, !.data = rows,
                           !.result = [kind |-> "rows", data |-> rows]])
  /\ UNCHANGED <<redis, inv>>

\* step 5, lines 69-71 with cacheResult up to its first await: setex
MwStore(r) ==
  /\ mw[r].pc = "store"
  /\ LET p == mw[r].req
         finished == [kind |-> "rows", data |-> mw[r].data]
     IN IF ~shouldCache(p)
        THEN /\ MwSet(r, [mw[r] EXCEPT !.pc = "done", !.result = finished])
             /\ UNCHANGED <<redis, inv>>
        ELSE /\ redis' = [redis EXCEPT
                            !.kv = setex(redis.kv, generateCacheKey(p),
                                         [data |-> mw[r].data,
                                          tags |-> TagsOf(p)])]
             /\ NoteWrite
             /\ IF Len(TagsOf(p)) > 0
                THEN MwSet(r, [mw[r] EXCEPT
                                 !.pc = "tag", !.tagsLeft = TagsOf(p),
                                 !.effects = Append(mw[r].effects, "setex")])
                ELSE MwSet(r, [mw[r] EXCEPT
                                 !.pc = "done", !.result = finished,
                                 !.effects = Append(mw[r].effects, "setex")])

\* addCacheTags: one sadd of the loop, lines 230-232
MwTag(r) ==
  /\ mw[r].pc = "tag"
  /\ LET p == mw[r].req
         tag == Head(mw[r].tagsLeft)
         rest == Tail(mw[r].tagsLeft)
     IN /\ redis' = [redis EXCEPT
                       !.sets = sadd(redis.sets, tag, generateCacheKey(p))]
        /\ IF Len(rest) > 0
           THEN MwSet(r, [mw[r] EXCEPT
                            !.tagsLeft = rest,
                            !.effects = Append(mw[r].effects, "sadd")])
           ELSE MwSet(r, [mw[r] EXCEPT
                            !.pc = "done", !.tagsLeft = rest,
                            !.effects = Append(mw[r].effects, "sadd"),
                            !.result = [kind |-> "rows", data |-> mw[r].data]])
  /\ NoteWrite

\* the promise executeQuery awaits rejects (Redis fails in redis.get, setex
\* or sadd, or queryBuilder.explain() fails in getOptimizationSuggestions):
\* nothing in lines 25-74, 132-169 or 199-233 catches it, so the call rejects
MwRejects(r) ==
  /\ mw[r].pc \in {"lookup", "suggest", "store", "tag"}
  /\ mw[r].pc = "store" => shouldCache(mw[r].req)
  /\ MwSet(r, [mw[r] EXCEPT
                 !.pc = "done",
                 !.result = [kind |-> "error",
                             error |-> IF mw[r].pc = "suggest"
                                       THEN "ExplainFailed" ELSE "RedisFailed",
                             at |-> mw[r].pc]])
  /\ UNCHANGED <<redis, inv>>

\* the caller has the result; the next call may come
MwFinish(r) ==
  /\ mw[r].pc = "done"
  /\ MwSet(r, MwIdleState)
  /\ UNCHANGED <<redis, inv>>

\* the position after tag i of invalidateCacheTags' loop
NextTag(i) ==
  IF i < Len(inv.tags)
  THEN [inv EXCEPT !.pc = "read", !.idx = i + 1, !.keys = {}]
  ELSE [inv EXCEPT !.pc = "done", !.keys = {}]

\* invalidateCacheTags(tags) is called
InvStart ==
  /\ inv.pc = "idle"
  /\ \E tags \in InvalidatedTags :
       inv' = [pc |-> IF Len(tags) = 0 THEN "done" ELSE "read",
               tags |-> tags, idx |-> 1, keys |-> {},
               clean |-> \A r \in Requests : mw[r].pc # "tag"]
  /\ UNCHANGED <<redis, mw>>

\* line 237: smembers, and the test of line 238
InvRead ==
  /\ inv.pc = "read"
  /\ LET keys == smembers(redis.sets, inv.tags[inv.idx])
     IN inv' = IF keys # {} THEN [inv EXCEPT !.pc = "delKeys", !.keys = keys]
               ELSE NextTag(inv.idx)
  /\ UNCHANGED <<redis, mw>>

\* line 239: del(...keys)
InvDelKeys ==
  /\ inv.pc = "delKeys"
  /\ redis' = [redis EXCEPT !.kv = del(redis.kv, inv.keys)]
  /\ inv' = [inv EXCEPT !.pc = "delTag"]
  /\ UNCHANGED mw

\* line 240: del(`tag:${tag}`)
InvDelTag ==
  /\ inv.pc = "delTag"
  /\ redis' = [redis EXCEPT !.sets = Without(redis.sets, inv.tags[inv.idx])]
  /\ inv' = NextTag(inv.idx)
  /\ UNCHANGED mw

\* the caller has seen invalidateCacheTags return
InvFinish ==
  /\ inv.pc = "done"
  /\ inv' = InvIdleState
  /\ UNCHANGED <<redis, mw>>

\* Redis drops a key whose ttl has run out
RedisExpire ==
  /\ \E k \in DOMAIN redis.kv : redis' = [redis EXCEPT !.kv = Without(redis.kv, k)]
  /\ UNCHANGED <<mw, inv>>

MwInit ==
  /\ redis = [kv |-> EmptyMap, sets |-> EmptyMap]
  /\ mw = [r \in Requests |-> MwIdleState]
  /\ inv = InvIdleState

\* two calls of executeQuery in flight at once
RacingRequests == {"r1", "r2"}

MwIdle ==
  /\ redis = [kv |-> EmptyMap, sets |-> EmptyMap]
  /\ mw = [r \in Requests |-> [MwIdleState EXCEPT !.pc = "off"]]
  /\ inv = [InvIdleState EXCEPT !.pc = "off"]

(***************************************************************************)
(* Framework.parseQueryParams followed by the pagination section of        *)
(* buildQuery, the two window sections of buildQuery with                  *)
(* buildWindowFunction, and its whereGroups section.  SQL text is a        *)
(* sequence of tokens.                                                     *)
(***************************************************************************)
\* parseQueryParams for the keys limit and offset: a string is replaced by
\* JSON.parse of it, or when that throws by `parseInt(value, 10) || 10`; any
\* other value is kept.  Of the texts drawn, JSON.parse reads "5", "0" and
\* "-5"; parseInt reads 12 out of "12abc" and NaN out of "abc" and ""
parseQueryParams(raw) ==
  LET IntOf(text) ==
        CASE text = "5" -> 5 [] text = "0" -> 0 [] text = "-5" -> 0 - 5
          [] text = "12abc" -> 12 [] OTHER -> 0
      JSONparses(text) == text \in {"5", "0", "-5"}
      parseIntOr10(text) == IF IntOf(text) # 0 THEN IntOf(text) ELSE 10
  IN [key \in DOMAIN raw |->
        IF raw[key].tag = "string"
        THEN IF JSONparses(raw[key].v) THEN IntOf(raw[key].v)
             ELSE parseIntOr10(raw[key].v)
        ELSE IntOf(raw[key].v)]

\* [...list] || [] for an optional list
ListAt(obj, key) == IF key \in DOMAIN obj THEN obj[key] ELSE <<>>

\* list.map(f).join(","): the tokens of each element, with commas between
RECURSIVE Joined(_)
Joined(parts) ==
  IF Len(parts) = 0 THEN <<>>
  ELSE IF Len(parts) = 1 THEN Head(parts)
  ELSE Head(parts) \o <<",">> \o Joined(Tail(parts))

\* wf.field || "*"
FieldOrStar(wf) ==
  IF "field" \in DOMAIN wf /\ wf.field # "" THEN wf.field ELSE "*"

\* lines 184-211: the select of one entry of windowFunctions
windowFunctionSelect(wf) ==
  LET windowClause ==
        IF wf.type # "row_number"
        THEN <<wf.type, "(", FieldOrStar(wf), ")">>
        ELSE <<FieldOrStar(wf)>>
      partitionBy == ListAt(wf, "partitionBy")
      orderBy == ListAt(wf, "orderBy")
      overClause ==
        <<"OVER(">>
        \o (IF Len(partitionBy) > 0
            THEN <<" PARTITION BY ">>
                 \o Joined([i \in 1..Len(partitionBy) |-> <<partitionBy[i]>>])
            ELSE <<>>)
        \o (IF Len(orderBy) > 0
            THEN <<" ORDER BY ">>
                 \o Joined([i \in 1..Len(orderBy) |->
                              <<orderBy[i].field, " ",
                                IF "direction" \in DOMAIN orderBy[i]
                                THEN orderBy[i].direction ELSE "asc">>])
            ELSE <<>>)
        \o (IF "frameClause" \in DOMAIN wf THEN <<" ", wf.frameClause>>
            ELSE <<>>)
        \o <<")">>
  IN [call |-> windowClause, over |-> overClause, as |-> <<" as ", wf.alias>>]

\* buildWindowFunction: the select of one entry of advancedWindows
buildWindowFunction(wf) ==
  LET fnCall ==
        IF wf.type = "row_number" THEN <<"ROW_NUMBER()">>
        ELSE <<wf.type, "(", FieldOrStar(wf), ")">>
      over == IF "over" \in DOMAIN wf THEN wf.over ELSE EmptyMap
      partitionBy == ListAt(over, "partitionBy")
      orderBy == ListAt(over, "orderBy")
      overClause ==
        <<"OVER (">>
        \o (IF Len(partitionBy) > 0
            THEN <<"PARTITION BY ">>
                 \o Joined([i \in 1..Len(partitionBy) |-> <<partitionBy[i]>>])
            ELSE <<>>)
        \o (IF Len(orderBy) > 0
            THEN <<" ORDER BY ">>
                 \o Joined([i \in 1..Len(orderBy) |->
                              <<orderBy[i].field, " ",
                                IF "direction" \in DOMAIN orderBy[i]
                                THEN orderBy[i].direction ELSE "ASC">>])
            ELSE <<>>)
        \o (IF "frame" \in DOMAIN over
            THEN <<" ", over.frame.type, " BETWEEN ", over.frame.start, " AND ",
                   IF "end" \in DOMAIN over.frame THEN over.frame.end
                   ELSE "CURRENT ROW">>
            ELSE <<>>)
        \o <<")">>
  IN [call |-> fnCall, over |-> overClause, as |-> <<" AS ", wf.alias>>]

\* lines 311-319: query.where(function) for one group, and inside it one
\* where / orWhere per element of group.clauses, given the element's field,
\* operator and value whatever the element is
whereGroupCalls(group) ==
  [method |-> "where",
   inner |->
     [i \in 1..Len(group.clauses) |->
        LET clause == group.clauses[i]
        IN [method |-> IF "boolean" \in DOMAIN clause
                          /\ clause.boolean \in {"OR", "or", "Or", "oR"}
                       THEN "orWhere" ELSE "where",
            field |-> IF "field" \in DOMAIN clause THEN Str(clause.field)
                      ELSE Undefined,
            operator |-> IF "operator" \in DOMAIN clause
                         THEN Str(clause.operator) ELSE Undefined,
            value |-> Get(clause, "value")]]]

CompileInit ==
  LET
     \* the raw query parameters drawn: limit and offset each absent, a string
     \* or a number
     RawParams ==
      LET Values == {Str("5"), Str("0"), Str("-5"), Str("abc"), Str("12abc"),
                     Str(""), Num("5")}
      IN {[k \in {} |-> Null]}
         \cup {[limit |-> v] : v \in Values}
         \cup {[offset |-> v] : v \in Values}
         \cup {[limit |-> v, offset |-> w] : v \in Values, w \in Values}
     \* the window functions drawn, each as a WindowFunction and as a
     \* WindowFunctionAdvanced with the same partition and order under `over`
     WindowEntries ==
      LET Bases == {[type |-> t, alias |-> "w"] : t \in {"row_number", "sum", "rank"}}
          WithField(S) ==
            S \cup {Extend(w, "field", f) : w \in S, f \in {"price", ""}}
          WithPartition(S) ==
            S \cup {Extend(w, "partitionBy", <<"region">>) : w \in S}
          WithOrder(S) ==
            S \cup {Extend(w, "orderBy", o) :
                      w \in S,
                      o \in {<<[field |-> "year"]>>,
                             <<[field |-> "year", direction |-> "desc"],
                               [field |-> "month"]>>}}
          Plain == WithField(Bases)
          Overs == WithOrder(WithPartition({EmptyMap}))
      IN {[section |-> "windowFunctions", wf |-> w] :
            w \in WithOrder(WithPartition(Plain))}
         \cup {[section |-> "advancedWindows", wf |-> Extend(w, "over", o)] :
                 w \in Plain, o \in Overs}
         \cup {[section |-> "advancedWindows", wf |-> w] : w \in Plain}
     \* the where groups drawn: one to MaxClauses + 1 elements, each a clause
     \* (untagged, tagged OR or tagged AND) or a group, one of them two deep
     WhereGroups ==
      LET Leaf(f) == [field |-> f, operator |-> "=", value |-> Num("1")]
          Inner == [type |-> "OR",
                    clauses |-> <<Leaf("region"),
                                  Extend(Leaf("year"), "boolean", "OR")>>]
          Deep == [type |-> "AND", clauses |-> <<Leaf("month"), Inner>>]
          Elements == {Leaf("status"), Extend(Leaf("ownerId"), "boolean", "OR"),
                       Extend(Leaf("price"), "boolean", "AND"), Inner, Deep}
      IN {[type |-> t, clauses |-> cs] :
            t \in {"AND", "OR"},
            cs \in UNION {[1..n -> Elements] : n \in 1..(MaxClauses + 1)}}
  IN /\ \/ compileIn \in {[fn |-> "paginate", raw |-> r] : r \in RawParams}
        \/ compileIn \in {[fn |-> "window", entry |-> e] : e \in WindowEntries}
        \/ compileIn \in {[fn |-> "whereGroup", group |-> g] : g \in WhereGroups}
     /\ compileOut = NotRun

\* data.query: parseQueryParams (line 169), then the limit and offset
\* sections of buildQuery on what it returned
Paginate ==
  /\ compileIn.fn = "paginate" /\ ~compileOut.done
  /\ LET queryParams == parseQueryParams(compileIn.raw)
     IN compileOut' = Returned([params |-> queryParams,
                                calls |-> SectionCalls("limit", queryParams)
                                          \o SectionCalls("offset", queryParams)])
  /\ UNCHANGED compileIn

\* one entry of windowFunctions or of advancedWindows
CompileWindow ==
  /\ compileIn.fn = "window" /\ ~compileOut.done
  /\ compileOut' = Returned(IF compileIn.entry.section = "windowFunctions"
                            THEN windowFunctionSelect(compileIn.entry.wf)
                            ELSE buildWindowFunction(compileIn.entry.wf))
  /\ UNCHANGED compileIn

\* one entry of whereGroups
CompileWhereGroup ==
  /\ compileIn.fn = "whereGroup" /\ ~compileOut.done
  /\ compileOut' = Returned(whereGroupCalls(compileIn.group))
  /\ UNCHANGED compileIn

CompileIdle ==
  /\ compileIn = [fn |-> "none"]
  /\ compileOut = NotRun

(***************************************************************************)
(* The evaluator as a machine: a call with arguments drawn from the        *)
(* bounded sets, and the step that runs it.                                *)
(***************************************************************************)
EvalInit ==
  /\ rules \in SeqsUpTo(RuleUniverse, MaxRules)
  /\ userContext \in Users
  /\ row \in EvalRows
  /\ access = "pending"

Evaluate ==
  /\ access = "pending"
  /\ access' = evaluatePermission(rules, userContext, row)
  /\ UNCHANGED <<rules, userContext, row>>

EvalIdle ==
  /\ rules = <<>>
  /\ userContext = NoCall.user
  /\ row = EmptyRow
  /\ access = "idle"

(***************************************************************************)
(* The specifications.                                                     *)
(***************************************************************************)
\* the analyzer, the caches and the middleware at rest
LayersIdle == ValIdle /\ CacheIdle /\ MwIdle /\ CompileIdle /\ SchemaIdle

InitEval == EvalInit /\ GateIdle /\ FwIdle /\ BuildIdle /\ LayersIdle

EvalNext == Evaluate /\ UNCHANGED <<gateVars, fwVars, buildVars, layerVars>>

SpecEval == InitEval /\ [][EvalNext]_vars

InitGate == GateInit /\ EvalIdle /\ FwIdle /\ BuildIdle /\ LayersIdle

GateNext ==
  \/ GateFetch /\ UNCHANGED <<evalVars, fwVars, buildVars, layerVars>>
  \/ GateDecide /\ UNCHANGED <<evalVars, fwVars, buildVars, layerVars>>

SpecGate == InitGate /\ [][GateNext]_vars

InitFramework == FwInit /\ EvalIdle /\ BuildIdle /\ LayersIdle

FrameworkNext ==
  \/ DataQuery /\ UNCHANGED <<evalVars, buildVars, layerVars>>
  \/ DataQueryReturns /\ UNCHANGED <<evalVars, buildVars, layerVars>>
  \/ DataCreate /\ UNCHANGED <<evalVars, buildVars, layerVars>>
  \/ DataUpdate /\ UNCHANGED <<evalVars, buildVars, layerVars>>
  \/ DataDelete /\ UNCHANGED <<evalVars, buildVars, layerVars>>
  \/ DataDeleteReturns /\ UNCHANGED <<evalVars, buildVars, layerVars>>
  \/ GateFetch /\ UNCHANGED <<evalVars, fwVars, buildVars, layerVars>>
  \/ GateDecide /\ UNCHANGED <<evalVars, fwVars, buildVars, layerVars>>
  \/ GateReturns /\ UNCHANGED <<evalVars, buildVars, layerVars>>
  \/ Respond /\ UNCHANGED <<evalVars, buildVars, layerVars>>
  \/ PermissionsSet /\ UNCHANGED <<evalVars, buildVars, layerVars>>

SpecFramework == InitFramework /\ [][FrameworkNext]_vars

InitBuild == BuildInit /\ EvalIdle /\ GateIdle /\ FwIdle /\ LayersIdle

BuildNext ==
  \/ BuildStep /\ UNCHANGED <<evalVars, gateVars, fwVars, layerVars>>
  \/ BuildReturn /\ UNCHANGED <<evalVars, gateVars, fwVars, layerVars>>

SpecBuild == InitBuild /\ [][BuildNext]_vars

InitValidate ==
  /\ ValInit /\ EvalIdle /\ GateIdle /\ FwIdle /\ BuildIdle /\ CacheIdle
  /\ MwIdle /\ CompileIdle /\ SchemaIdle

ValidateNext ==
  \/ Validate /\ UNCHANGED <<coreVars, cacheVars, mwVars, compileVars, schema>>
  \/ ClientValidate /\ UNCHANGED <<coreVars, cacheVars, mwVars, compileVars, schema>>
  \/ Complexity /\ UNCHANGED <<coreVars, cacheVars, mwVars, compileVars, schema>>

SpecValidate == InitValidate /\ [][ValidateNext]_vars

InitCache ==
  /\ CacheInit /\ EvalIdle /\ GateIdle /\ FwIdle /\ BuildIdle /\ ValIdle
  /\ MwIdle /\ CompileIdle /\ SchemaIdle

CacheNext ==
  \/ CacheSet /\ UNCHANGED <<coreVars, valVars, mwVars, compileVars, schema>>
  \/ CacheGet /\ UNCHANGED <<coreVars, valVars, mwVars, compileVars, schema>>
  \/ CacheInvalidate /\ UNCHANGED <<coreVars, valVars, mwVars, compileVars, schema>>
  \/ Tick /\ UNCHANGED <<coreVars, valVars, mwVars, compileVars, schema>>

SpecCache == InitCache /\ [][CacheNext]_vars

InitMiddleware ==
  /\ MwInit /\ EvalIdle /\ GateIdle /\ FwIdle /\ BuildIdle /\ ValIdle
  /\ CacheIdle /\ CompileIdle /\ SchemaIdle

MiddlewareNext ==
  \/ \E r \in Requests : MwStart(r) /\ UNCHANGED <<coreVars, valVars, cacheVars, compileVars, schema>>
  \/ \E r \in Requests : MwValidate(r) /\ UNCHANGED <<coreVars, valVars, cacheVars, compileVars, schema>>
  \/ \E r \in Requests : MwLookup(r) /\ UNCHANGED <<coreVars, valVars, cacheVars, compileVars, schema>>
  \/ \E r \in Requests : MwSuggest(r) /\ UNCHANGED <<coreVars, valVars, cacheVars, compileVars, schema>>
  \/ \E r \in Requests : MwRun(r) /\ UNCHANGED <<coreVars, valVars, cacheVars, compileVars, schema>>
  \/ \E r \in Requests : MwStore(r) /\ UNCHANGED <<coreVars, valVars, cacheVars, compileVars, schema>>
  \/ \E r \in Requests : MwTag(r) /\ UNCHANGED <<coreVars, valVars, cacheVars, compileVars, schema>>
  \/ \E r \in Requests : MwFinish(r) /\ UNCHANGED <<coreVars, valVars, cacheVars, compileVars, schema>>
  \/ InvStart /\ UNCHANGED <<coreVars, valVars, cacheVars, compileVars, schema>>
  \/ InvRead /\ UNCHANGED <<coreVars, valVars, cacheVars, compileVars, schema>>
  \/ InvDelKeys /\ UNCHANGED <<coreVars, valVars, cacheVars, compileVars, schema>>
  \/ InvDelTag /\ UNCHANGED <<coreVars, valVars, cacheVars, compileVars, schema>>
  \/ InvFinish /\ UNCHANGED <<coreVars, valVars, cacheVars, compileVars, schema>>
  \/ RedisExpire /\ UNCHANGED <<coreVars, valVars, cacheVars, compileVars, schema>>

SpecMiddleware == InitMiddleware /\ [][MiddlewareNext]_vars

\* executeQuery with collaborators that may fail
FaultsNext ==
  \/ \E r \in Requests : MwStart(r) /\ UNCHANGED <<coreVars, valVars, cacheVars, compileVars, schema>>
  \/ \E r \in Requests : MwValidate(r) /\ UNCHANGED <<coreVars, valVars, cacheVars, compileVars, schema>>
  \/ \E r \in Requests : MwLookup(r) /\ UNCHANGED <<coreVars, valVars, cacheVars, compileVars, schema>>
  \/ \E r \in Requests : MwSuggest(r) /\ UNCHANGED <<coreVars, valVars, cacheVars, compileVars, schema>>
  \/ \E r \in Requests : MwRun(r) /\ UNCHANGED <<coreVars, valVars, cacheVars, compileVars, schema>>
  \/ \E r \in Requests : MwStore(r) /\ UNCHANGED <<coreVars, valVars, cacheVars, compileVars, schema>>
  \/ \E r \in Requests : MwTag(r) /\ UNCHANGED <<coreVars, valVars, cacheVars, compileVars, schema>>
  \/ \E r \in Requests : MwRejects(r) /\ UNCHANGED <<coreVars, valVars, cacheVars, compileVars, schema>>
  \/ \E r \in Requests : MwFinish(r) /\ UNCHANGED <<coreVars, valVars, cacheVars, compileVars, schema>>
  \/ RedisExpire /\ UNCHANGED <<coreVars, valVars, cacheVars, compileVars, schema>>

SpecFaults == InitMiddleware /\ [][FaultsNext]_vars

InitCompile ==
  /\ CompileInit /\ EvalIdle /\ GateIdle /\ FwIdle /\ BuildIdle /\ ValIdle
  /\ CacheIdle /\ MwIdle /\ SchemaIdle

CompileNext ==
  \/ Paginate /\ UNCHANGED <<coreVars, valVars, cacheVars, mwVars, schema>>
  \/ CompileWindow /\ UNCHANGED <<coreVars, valVars, cacheVars, mwVars, schema>>
  \/ CompileWhereGroup /\ UNCHANGED <<coreVars, valVars, cacheVars, mwVars, schema>>

SpecCompile == InitCompile /\ [][CompileNext]_vars

InitSchema ==
  /\ SchemaInit /\ EvalIdle /\ FwIdle /\ BuildIdle /\ ValIdle /\ CacheIdle
  /\ MwIdle /\ CompileIdle

SchemaNext ==
  \/ SchemaCreate
       /\ UNCHANGED <<evalVars, fwVars, buildVars, valVars, cacheVars, mwVars,
                       compileVars>>
  \/ SchemaCreateReturns
       /\ UNCHANGED <<evalVars, fwVars, buildVars, valVars, cacheVars, mwVars,
                       compileVars>>
  \/ PermissionsInsertLands
       /\ UNCHANGED <<evalVars, fwVars, buildVars, valVars, cacheVars, mwVars,
                       compileVars>>
  \/ enforcePermissionsStarts
       /\ UNCHANGED <<evalVars, fwVars, buildVars, valVars, cacheVars, mwVars,
                       compileVars>>
  \/ GateFetch /\ UNCHANGED <<evalVars, fwVars, buildVars, layerVars>>
  \/ GateDecide /\ UNCHANGED <<evalVars, fwVars, buildVars, layerVars>>

SpecSchema == InitSchema /\ [][SchemaNext]_vars

\* two executeQuery calls interleaved at their awaits
InitRace ==
  /\ redis = [kv |-> EmptyMap, sets |-> EmptyMap]
  /\ mw = [r \in RacingRequests |-> MwIdleState]
  /\ inv = [InvIdleState EXCEPT !.pc = "off"]
  /\ EvalIdle /\ GateIdle /\ FwIdle /\ BuildIdle /\ ValIdle /\ CacheIdle
  /\ CompileIdle /\ SchemaIdle

RaceNext ==
  \/ \E r \in RacingRequests : MwStart(r) /\ UNCHANGED <<coreVars, valVars, cacheVars, compileVars, schema>>
  \/ \E r \in RacingRequests : MwValidate(r) /\ UNCHANGED <<coreVars, valVars, cacheVars, compileVars, schema>>
  \/ \E r \in RacingRequests : MwLookup(r) /\ UNCHANGED <<coreVars, valVars, cacheVars, compileVars, schema>>
  \/ \E r \in RacingRequests : MwSuggest(r) /\ UNCHANGED <<coreVars, valVars, cacheVars, compileVars, schema>>
  \/ \E r \in RacingRequests : MwRun(r) /\ UNCHANGED <<coreVars, valVars, cacheVars, compileVars, schema>>
  \/ \E r \in RacingRequests : MwStore(r) /\ UNCHANGED <<coreVars, valVars, cacheVars, compileVars, schema>>
  \/ \E r \in RacingRequests : MwTag(r) /\ UNCHANGED <<coreVars, valVars, cacheVars, compileVars, schema>>
  \/ \E r \in RacingRequests : MwFinish(r) /\ UNCHANGED <<coreVars, valVars, cacheVars, compileVars, schema>>

SpecRace == InitRace /\ [][RaceNext]_vars

(***************************************************************************)
(* Claims about evaluatePermission.                                        *)
(***************************************************************************)
Outcome(i) == RuleOutcome(rules[i], userContext, row)

\* some rule of the list yields Allow or Deny
Decides(rs) ==
  \E i \in 1..Len(rs) : RuleOutcome(rs[i], userContext, row) \in {"Allow", "Deny"}

\* every rule of the list yields Continue: none decides and none raises
AllContinue(rs) ==
  \A i \in 1..Len(rs) : RuleOutcome(rs[i], userContext, row) = "Continue"

Prefix(k) == SubSeq(rules, 1, k)
Suffix(k) == SubSeq(rules, k + 1, Len(rules))

ResultOf(o) ==
  CASE o = "Allow" -> "true" [] o = "Deny" -> "false" [] OTHER -> "throw"

\* C1 (as stated): for every split rules = R1 ++ R2, if some rule of R1
\* yields Allow or Deny the result is evaluate(R1), and if no rule of R1
\* decides the result is evaluate(R2).
C1_AsStated ==
  access # "pending" =>
    \A k \in 0..Len(rules) :
      IF Decides(Prefix(k))
      THEN access = evaluatePermission(Prefix(k), userContext, row)
      ELSE access = evaluatePermission(Suffix(k), userContext, row)

\* C1 (amended): the result is the outcome of the earliest rule that does
\* not yield Continue; for every split rules = R1 ++ R2, if some rule of R1
\* yields Allow or Deny the result is evaluate(R1), and if every rule of R1
\* yields Continue (none decides and none raises) the result is evaluate(R2).
C1_FirstOutcomeWins ==
  access # "pending" =>
    /\ \A i \in 1..Len(rules) :
         (Outcome(i) # "Continue" /\ \A j \in 1..(i - 1) : Outcome(j) = "Continue")
           => access = ResultOf(Outcome(i))
    /\ \A k \in 0..Len(rules) :
         /\ Decides(Prefix(k))
              => access = evaluatePermission(Prefix(k), userContext, row)
         /\ AllContinue(Prefix(k))
              => access = evaluatePermission(Suffix(k), userContext, row)

\* a call was evaluated whose first rule denies and whose second would allow
C1_Witness ==
  /\ access = "false"
  /\ Len(rules) = 2
  /\ Outcome(1) = "Deny"
  /\ Outcome(2) = "Allow"

\* C2 (as stated): if no rule of the list reaches an Allow or Deny decision,
\* evaluatePermission returns false.
C2_AsStated ==
  (access # "pending" /\ ~Decides(rules)) => access = "false"

\* C2 (amended): if every rule of the list (the empty list included) yields
\* Continue, so that none decides and none raises, evaluatePermission
\* returns false.
C2_DefaultDeny ==
  (access # "pending" /\ AllContinue(rules)) => access = "false"

\* a non-empty list was evaluated in which no rule decided
C2_Witness ==
  /\ access = "false"
  /\ Len(rules) = 2
  /\ AllContinue(rules)

IdentityPresent(u) == u.userId.tag # "undefined"

\* C3: an auth rule allows iff the identity is present, a guest rule allows
\* iff it is absent, and exactly one of the two allows for any user context.
C3_AuthGuestComplementary ==
  /\ (access # "pending" /\ rules = <<[allow |-> "auth"]>>)
       => (access = "true" <=> IdentityPresent(userContext))
  /\ (access # "pending" /\ rules = <<[allow |-> "guest"]>>)
       => (access = "true" <=> ~IdentityPresent(userContext))
  /\ access # "pending" =>
       (evaluatePermission(<<[allow |-> "auth"]>>, userContext, row) = "true")
         # (evaluatePermission(<<[allow |-> "guest"]>>, userContext, row) = "true")

\* the user's role is one of the rule's roles
RoleListed(rule, u) ==
  /\ "roles" \in DOMAIN rule
  /\ u.role # ""
  /\ u.role \in {rule.roles[i] : i \in 1..Len(rule.roles)}

\* C11: a role rule allows iff the user's role is in the rule's role list and
\* denies otherwise (empty or missing list, no role, role not listed); with
\* the list [admin] the result is true exactly when the role is admin.
C11_RoleMembership ==
  (access # "pending" /\ Len(rules) > 0 /\ rules[1].allow = "role") =>
    /\ access = (IF RoleListed(rules[1], userContext) THEN "true" ELSE "false")
    /\ rules[1] = [allow |-> "role", roles |-> <<"admin">>]
         => (access = "true" <=> userContext.role = "admin")

\* a role rule denied a user whose role is not listed, ahead of a public rule
C11_Witness ==
  /\ access = "false"
  /\ rules = <<[allow |-> "role", roles |-> <<"admin">>], [allow |-> "public"]>>
  /\ userContext.role = "user"

ElementsOf(list) == {list[i] : i \in 1..Len(list)}

\* the rule carries a set under `key` that shares an element with the user's
SharesSome(rule, key, mine) ==
  /\ key \in DOMAIN rule
  /\ ElementsOf(rule[key]) \cap ElementsOf(mine) # {}

RestOf(rs) == SubSeq(rs, 2, Len(rs))

\* C12: a labels (teams) rule allows iff the user's labels (teams) and the
\* rule's set have an element in common; otherwise it decides nothing and
\* the result is that of the rules after it.
C12_LabelsTeamsIntersect ==
  /\ (access # "pending" /\ Len(rules) > 0 /\ rules[1].allow = "labels") =>
       access = (IF SharesSome(rules[1], "labels", userContext.labels)
                 THEN "true"
                 ELSE evaluatePermission(RestOf(rules), userContext, row))
  /\ (access # "pending" /\ Len(rules) > 0 /\ rules[1].allow = "teams") =>
       access = (IF SharesSome(rules[1], "teams", userContext.teams)
                 THEN "true"
                 ELSE evaluatePermission(RestOf(rules), userContext, row))

\* a teams rule whose set is disjoint from the user's non-empty team set
\* decided nothing, and the public rule after it allowed
C12_Witness ==
  /\ access = "true"
  /\ rules = <<[allow |-> "teams", teams |-> <<"ops">>], [allow |-> "public"]>>
  /\ userContext.teams = <<"eng">>

\* a customSql rule whose template names a context field the user lacks
MissingRef(rule, u) ==
  /\ rule.allow = "customSql"
  /\ "customSql" \in DOMAIN rule
  /\ ~rule.customSql.empty
  /\ \E i \in 1..Len(rule.customSql.refs) :
       UserField(u, rule.customSql.refs[i]) = Undefined

\* C13: when the scan reaches a customSql rule that names an undefined
\* context field, evaluatePermission raises and gives no result; when an
\* earlier rule has decided, its decision is the result and nothing is raised.
C13_MissingContextRaises ==
  access # "pending" =>
    \A i \in 1..Len(rules) :
      MissingRef(rules[i], userContext) =>
        /\ (\A j \in 1..(i - 1) : Outcome(j) = "Continue") => access = "throw"
        /\ \A j \in 1..(i - 1) :
             (Outcome(j) \in {"Allow", "Deny"}
              /\ \A k \in 1..(j - 1) : Outcome(k) = "Continue")
               => access = ResultOf(Outcome(j))

\* the scan passed a rule that decided nothing and raised at the customSql
\* rule after it
C13_Witness ==
  /\ access = "throw"
  /\ Len(rules) = 2
  /\ Outcome(1) = "Continue"
  /\ MissingRef(rules[2], userContext)

(***************************************************************************)
(* Claims about enforcePermissions.                                        *)
(***************************************************************************)
GateDone == gatePc = "done"
StoredFor(t) == permStore[t].operations
HasEntry ==
  /\ gateCall.tableName \in DOMAIN permStore
  /\ gateCall.operation \in DOMAIN StoredFor(gateCall.tableName)
GateRuleList == StoredFor(gateCall.tableName)[gateCall.operation]

\* C4: with no TablePermissions for the table, or none for the operation,
\* the call raises the operation-not-allowed error and returns no rows; with
\* an entry whose rule list is empty it returns the given rows unchanged.
C4_MissingVersusEmpty ==
  GateDone =>
    /\ ~HasEntry =>
         (gateResult.kind = "error" /\ gateResult.error = "OperationNotAllowed")
    /\ (HasEntry /\ Len(GateRuleList) = 0) =>
         (gateResult.kind = "rows" /\ gateResult.rows = gateCall.rows)

\* a call on an empty rule list returned the rows it was given
C4_Witness ==
  /\ GateDone /\ HasEntry /\ Len(GateRuleList) = 0
  /\ Len(gateCall.rows.items) = 2
  /\ gateResult.kind = "rows" /\ gateResult.rows = gateCall.rows

\* C5: a non-empty rule list without fieldCheck is evaluated exactly once,
\* against the empty row; Allow returns the rows unchanged and in order,
\* Deny raises the access-denied error and returns no rows; other rows in
\* the same call would have given the same outcome.
C5_WholeOperation ==
  (GateDone /\ HasEntry /\ Len(GateRuleList) > 0 /\ ~HasFieldCheck(GateRuleList)) =>
    LET a == evaluatePermission(GateRuleList, gateCall.user, EmptyRow)
    IN /\ gateResult.evals = <<EmptyRow>>
       /\ a = "true" =>
            (gateResult.kind = "rows" /\ gateResult.rows = gateCall.rows)
       /\ a = "false" =>
            (gateResult.kind = "error" /\ gateResult.error = "AccessDenied")
       /\ \A items \in RowLists(1) :
            LET other == Decide(tablePermissions, gateCall.operation,
                                [array |-> TRUE, items |-> items], gateCall.user)
            IN /\ other.kind = gateResult.kind
               /\ other.kind = "error" => other.error = gateResult.error

\* a rule list without fieldCheck denied a call that carried rows
C5_Witness ==
  /\ GateDone /\ HasEntry /\ Len(GateRuleList) = 2 /\ ~HasFieldCheck(GateRuleList)
  /\ Len(gateCall.rows.items) = 2
  /\ gateResult.kind = "error" /\ gateResult.error = "AccessDenied"

Allowed(r) == evaluatePermission(GateRuleList, gateCall.user, r) = "true"
Raises(r) == evaluatePermission(GateRuleList, gateCall.user, r) = "throw"
SomeRowRaises == \E i \in 1..Len(gateCall.rows.items) : Raises(gateCall.rows.items[i])

OwnedByUser(r) == StrictEq(Get(r, "ownerId"), gateCall.user.userId)

\* C6 (as stated): a rule list with a fieldCheck rule returns exactly the
\* rows for which evaluate is true, in order, and raises no error.
C6_AsStated ==
  (GateDone /\ HasEntry /\ HasFieldCheck(GateRuleList)) =>
    /\ gateResult.kind = "rows"
    /\ gateResult.rows.items = SelectSeq(gateCall.rows.items, Allowed)

\* C6 (amended): a rule list with a fieldCheck rule is evaluated per row;
\* when no row's evaluation raises, the call returns exactly the rows for
\* which evaluate is true, in order, and raises no error however many rows
\* it drops; when some row's evaluation raises the missing-context error,
\* the call raises it.  With the single rule ownerId === userContext.userId
\* the result is the rows whose ownerId is the user's userId.
C6_PerRowFilter ==
  (GateDone /\ HasEntry /\ HasFieldCheck(GateRuleList)) =>
    /\ ~SomeRowRaises =>
         /\ gateResult.kind = "rows"
         /\ gateResult.rows.items = SelectSeq(gateCall.rows.items, Allowed)
         /\ gateResult.evals = gateCall.rows.items
    /\ SomeRowRaises =>
         (gateResult.kind = "error" /\ gateResult.error = "MissingContext")
    /\ GateRuleList = OwnerOnlyRules =>
         /\ gateResult.kind = "rows"
         /\ gateResult.rows.items = SelectSeq(gateCall.rows.items, OwnedByUser)

\* rows 1 (owner 5) and 2 (owner 9) were filtered for user 5 by the single
\* rule ownerId === userContext.userId: row 1 alone came back
C6_Witness ==
  /\ GateDone /\ HasEntry /\ GateRuleList = OwnerOnlyRules
  /\ gateCall.user.userId = Num("5")
  /\ gateCall.rows.items = <<RowOf("1", "5"), RowOf("2", "9")>>
  /\ gateResult.kind = "rows"
  /\ gateResult.rows.items = <<RowOf("1", "5")>>

(***************************************************************************)
(* Claims about the data endpoints.                                        *)
(***************************************************************************)
IsMutation == req.kind \in {"create", "update", "delete"}

\* the gate raised an error, or returned fewer records than it was given
GateRejected ==
  \/ gateResult.kind = "error"
  \/ /\ gateResult.kind = "rows"
     /\ Len(gateResult.rows.items) < Len(gateCall.rows.items)

\* C7: with enforceRls on, a create, update or delete issues a write to
\* storage only after the gate has decided for its payload, and a request
\* the gate rejected (as a whole or for one record) has issued no write.
C7_PreWriteBlocking ==
  (enforceRls /\ IsMutation) =>
    /\ issued # <<>> => (gateResult.kind = "rows" /\ ~GateRejected)
    /\ GateRejected => issued = <<>>

\* C8: with enforceRls on, every row data.query returns was given to
\* enforcePermissions and kept by it, whether or not the request carries a
\* user context.
C8_QueryRowsPassGate ==
  (enforceRls /\ req.kind = "query" /\ fwPc = "done" /\ response.kind = "rows") =>
    \A i \in 1..Len(response.rows.items) :
      /\ gateResult.kind = "rows"
      /\ gateCall.operation = "SELECT"
      /\ \E j \in 1..Len(gateResult.rows.items) :
           gateResult.rows.items[j] = response.rows.items[i]

(***************************************************************************)
(* Claims about buildQuery.                                                *)
(***************************************************************************)
\* the order of clause kinds the claim fixes
FixedOrder ==
  << "ctes", "recursiveCtes", "windowFunctions", "advancedWindows", "filter",
     "rawExpressions", "aggregates", "whereRaw", "whereBetween", "whereNull",
     "whereNotNull", "whereIn", "whereNotIn", "whereExists", "whereGroups",
     "groupBy", "having", "orderBy", "limit", "offset" >>

Rank(kind) == CHOOSE i \in 1..Len(FixedOrder) : FixedOrder[i] = kind

CallsOf(kind) == SelectSeq(query, LAMBDA c : c.kind = kind)

\* C9: at every point of buildQuery the calls made so far are in the fixed
\* order of clause kinds (no call of an earlier kind follows a call of a
\* later kind), and when it returns the calls of each kind are the elements
\* of the IR's list for that kind, in list order.
C9_FixedClauseOrder ==
  /\ \A i \in 1..Len(query) : \A j \in i..Len(query) :
       Rank(query[i].kind) <= Rank(query[j].kind)
  /\ buildResult = "returned" =>
       \A kind \in PerItemKinds \cap DOMAIN params :
         LET calls == CallsOf(kind)
         IN [i \in 1..Len(calls) |-> calls[i].arg] = params[kind]
  /\ (buildResult = "returned" /\ "aggregates" \in DOMAIN params) =>
       LET calls == CallsOf("aggregates")
           known == SelectSeq(params.aggregates,
                              LAMBDA a : a.type \in KnownAggregates)
       IN [i \in 1..Len(calls) |-> calls[i].method]
            = [i \in 1..Len(known) |-> known[i].type]

\* a build returned after applying two orderBy clauses and then the limit
C9_Witness ==
  /\ buildResult = "returned"
  /\ Len(query) = 3
  /\ query[1].kind = "orderBy" /\ query[2].kind = "orderBy"
  /\ query[1].arg.n = 1 /\ query[2].arg.n = 2
  /\ query[3].kind = "limit"

HasUnknownAggregate ==
  /\ "aggregates" \in DOMAIN params
  /\ \E i \in 1..Len(params.aggregates) :
       params.aggregates[i].type \notin {"count", "sum", "avg", "min", "max"}

\* C10: a build whose IR has an aggregate of an unknown type fails with the
\* unsupported-feature error: it never returns a compiled query.
C10_UnknownAggregateRejected ==
  HasUnknownAggregate => buildResult # "returned"

(***************************************************************************)
(* Claims about validateQuery and the complexity score.                    *)
(***************************************************************************)
\* the field is a key of filter, whereIn or whereNotIn, the field of a
\* whereRaw or whereBetween clause, or an element of whereNull / whereNotNull
Referenced(p, field) ==
  \/ \E key \in {"filter", "whereIn", "whereNotIn"} \cap DOMAIN p :
       field \in DOMAIN p[key]
  \/ \E key \in {"whereRaw", "whereBetween"} \cap DOMAIN p :
       \E i \in 1..Len(p[key]) : p[key][i].field = field
  \/ \E key \in {"whereNull", "whereNotNull"} \cap DOMAIN p :
       \E i \in 1..Len(p[key]) : p[key][i] = field

\* the rules of rs that the IR p violates
RulesBrokenBy(p, rs) ==
  {r \in RuleKeys \cap DOMAIN rs :
     \/ r = "maxLimit" /\ "limit" \in DOMAIN p /\ p.limit > rs.maxLimit
     \/ r = "requiredFields"
          /\ \E f \in ElementsOf(rs.requiredFields) : ~Referenced(p, f)
     \/ r = "disallowedFields"
          /\ \E f \in ElementsOf(rs.disallowedFields) : Referenced(p, f)
     \/ r = "maxComplexity"
          /\ calculateQueryComplexity(p) > 2 * rs.maxComplexity}

BrokenRules == RulesBrokenBy(ir, vRules)

ReportedRules(list) == {list[i].rule : i \in 1..Len(list)}

\* the fields a violation of the rule names, over the whole list
ReportedFields(list, rule) ==
  UNION {ElementsOf(list[i].detail) : i \in {j \in 1..Len(list) : list[j].rule = rule}}

\* C14: the list validateQuery returns has a violation for each of the four
\* rules that is violated, whatever the other three give, and is empty iff
\* no rule is violated; for the middleware's validator and the client's.
C14_AllViolationsAccumulated ==
  /\ violations.done =>
       /\ BrokenRules \subseteq ReportedRules(violations.value)
       /\ violations.value = <<>> <=> BrokenRules = {}
  /\ clientViolations.done =>
       /\ BrokenRules \subseteq ReportedRules(clientViolations.value)
       /\ clientViolations.value = <<>> <=> BrokenRules = {}

\* C15: with maxLimit configured and a limit given, a maxLimit violation is
\* reported iff limit > maxLimit.
C15_MaxLimitThreshold ==
  (violations.done /\ "maxLimit" \in DOMAIN vRules /\ "limit" \in DOMAIN ir) =>
    ("maxLimit" \in ReportedRules(violations.value) <=> ir.limit > vRules.maxLimit)

\* C16: every disallowed field the IR references is reported, and every
\* required field it does not reference is reported, whatever literal a
\* referenced field is compared with.
C16_ReferencedFields ==
  violations.done =>
    /\ "disallowedFields" \in DOMAIN vRules =>
         \A f \in ElementsOf(vRules.disallowedFields) :
           Referenced(ir, f)
             => f \in ReportedFields(violations.value, "disallowedFields")
    /\ "requiredFields" \in DOMAIN vRules =>
         \A f \in ElementsOf(vRules.requiredFields) :
           ~Referenced(ir, f)
             => f \in ReportedFields(violations.value, "requiredFields")

\* the IR has two whereRaw clauses, a non-empty groupBy and nothing else
TwoRawAndGroupBy ==
  /\ DOMAIN ir = {"whereRaw", "groupBy"}
  /\ Len(ir.whereRaw) = 2
  /\ Len(ir.groupBy) > 0

\* C17 (as stated): the score of such an IR is 4 (8 halves), however many
\* fields the groupBy names.
C17_AsStated ==
  (score.done /\ TwoRawAndGroupBy) => score.value = 2 * 4

\* C17 (amended): the score of such an IR is 2 + 2n for a groupBy of n
\* fields (in halves, 4 + 4n): it is 4 exactly when n = 1.
C17_ScoreCountsGroupedFields ==
  (score.done /\ TwoRawAndGroupBy) =>
    /\ score.value = 2 * (2 + 2 * Len(ir.groupBy))
    /\ score.value = 2 * 4 <=> Len(ir.groupBy) = 1

\* the score of two whereRaw clauses and a groupBy of two fields came out 6
C17_Witness ==
  /\ score.done /\ TwoRawAndGroupBy
  /\ Len(ir.groupBy) = 2
  /\ score.value = 2 * 6

(***************************************************************************)
(* Claims about the caches.                                                *)
(***************************************************************************)
\* the time passed at the latest get since its key was last set
Elapsed == lastGet.at - setLog[lastGet.key].at

\* C18: an entry set with ttl t is returned by a get at an elapsed time
\* below t seconds (provided nothing removed it), and a get at an elapsed
\* time of t seconds or more returns nothing and drops the entry.
C18_ExpiryAtTtl ==
  (lastGet.called /\ lastGet.found) =>
    IF Elapsed < setLog[lastGet.key].ttl * MsPerSecond
    THEN lastGet.result = setLog[lastGet.key].data
    ELSE lastGet.result = Null /\ lastGet.key \notin DOMAIN cache

\* invalidateCacheTags has returned and no cacheResult wrote to Redis while
\* it ran or since
InvalidationSettled == inv.pc = "done" /\ inv.clean

\* no tag of the list is in the tag index or on a stored entry
NothingTagged(tags) ==
  \A t \in ElementsOf(tags) :
    /\ t \notin DOMAIN redis.sets
    /\ \A k \in DOMAIN redis.kv : t \notin ElementsOf(redis.kv[k].tags)

\* request r reads the cache in this step and gets an entry
CacheHit(r) ==
  mw[r].pc = "lookup" /\ mw'[r].pc = "done" /\ mw'[r].result.kind = "cached"

\* C19: once invalidateCacheTags(T) has completed with no cache write in
\* between, no entry stored with a tag of T is left in the store, the tag
\* index has no set for a tag of T, and a cache read returns no such entry.
C19_TaggedEntriesRemoved ==
  /\ [](InvalidationSettled => NothingTagged(inv.tags))
  /\ [][\A r \in Requests :
         (InvalidationSettled /\ CacheHit(r)) =>
           ElementsOf(mw'[r].result.tags) \cap ElementsOf(inv.tags) = {}]_vars

\* C20: a request whose validation rules are violated by its IR is rejected
\* with the validation error before it reads the cache, runs or explains
\* the query, or writes the cache.
C20_RejectedBeforeSideEffects ==
  \A r \in Requests :
    LET p == mw[r].req
    IN ("validation" \in DOMAIN p
        /\ RulesBrokenBy(p, p.validation.rules) # {}) =>
         /\ mw[r].effects = <<>>
         /\ mw[r].pc \in {"validate", "done"}
         /\ mw[r].pc = "done" =>
              (mw[r].result.kind = "error"
               /\ mw[r].result.error = "ValidationFailed")

\* a cacheResult call has stored the entry under k and not yet added k to all
\* its tag sets
WriteInFlight(k) ==
  \E r \in DOMAIN mw : mw[r].pc = "tag" /\ generateCacheKey(mw[r].req) = k

\* C30: under every interleaving of cache writes and invalidations, an entry
\* whose cache write has finished is listed in the tag set of each of its
\* tags for as long as it is in the cache.
C30_TagIndexLists ==
  \A k \in DOMAIN redis.kv :
    ~WriteInFlight(k) =>
      \A t \in ElementsOf(redis.kv[k].tags) : k \in smembers(redis.sets, t)

\* C21: a failure of the cache store in the lookup or the store step, or of
\* the computation of the suggestions, does not fail executeQuery: the only
\* error a call ends with is the validation error, and a call that was not
\* rejected by validation and got nothing from the cache has run the query.
C21_AuxiliaryFailuresNonFatal ==
  \A r \in DOMAIN mw :
    mw[r].pc = "done" =>
      /\ mw[r].result.kind = "error" => mw[r].result.error = "ValidationFailed"
      /\ mw[r].result.kind = "rows" =>
           \E i \in 1..Len(mw[r].effects) :
             mw[r].effects[i] \in {"query", "explainQuery"}

\* request r stores its result in this step
Writes(r) ==
  /\ mw[r].pc = "store" /\ mw'[r].pc \in {"tag", "done"}
  /\ Len(mw'[r].effects) > Len(mw[r].effects)

\* request r has missed, run the query and written the cache under key k
MissedRanWrote(r, k) ==
  /\ mw[r].pc = "done"
  /\ mw[r].effects = <<"cacheGet", "query", "setex">>
  /\ generateCacheKey(mw[r].req) = k

\* C22: nothing keeps two calls with the same cache key from both missing,
\* both running the query and both writing; every cache write replaces what
\* is stored under its key with its own result and nothing else changes an
\* entry, so that after both calls the key holds the result written last.
C22_LastWriteWins ==
  /\ [][/\ \A r \in DOMAIN mw :
             Writes(r) =>
               redis'.kv[generateCacheKey(mw[r].req)].data = mw[r].data
        /\ \A k \in DOMAIN redis'.kv :
             (k \notin DOMAIN redis.kv \/ redis'.kv[k] # redis.kv[k]) =>
               \E r \in DOMAIN mw :
                 Writes(r) /\ generateCacheKey(mw[r].req) = k]_vars
  /\ [](\A k \in DOMAIN redis.kv :
          (\A r \in DOMAIN mw : MissedRanWrote(r, k)) =>
            \E r \in DOMAIN mw : redis.kv[k].data = mw[r].data)

\* both calls missed query:q1, both ran the query, r1 got rows1 and r2 rows2,
\* both wrote, and the key holds rows2
C22_Witness ==
  /\ DOMAIN mw = RacingRequests
  /\ \A r \in DOMAIN mw : MissedRanWrote(r, "query:q1")
  /\ mw["r1"].data = Str("rows1") /\ mw["r2"].data = Str("rows2")
  /\ redis.kv["query:q1"].data = Str("rows2")

(***************************************************************************)
(* Claims about the customSql rule, pagination and the compiled clauses.   *)
(***************************************************************************)
\* rule i is a customSql rule with the template SqlOwner, read as the
\* predicate `owner_id = :userId`, and the user has a userId
OwnerPredicateAt(i) ==
  /\ rules[i].allow = "customSql"
  /\ "customSql" \in DOMAIN rules[i]
  /\ rules[i].customSql = SqlOwner
  /\ userContext.userId # Undefined

\* C24: a customSql rule whose referenced context fields are all defined
\* yields Allow only when its interpolated predicate holds for the row: with
\* the predicate `owner_id = :userId` and a row of another owner (or of no
\* owner) the rule does not yield Allow.
C24_CustomSqlNeedsPredicate ==
  access # "pending" =>
    \A i \in 1..Len(rules) :
      (OwnerPredicateAt(i) /\ ~StrictEq(Get(row, "ownerId"), userContext.userId))
        => Outcome(i) # "Allow"

\* the raw value under key is absent, or a text that is no number at all
AbsentOrInvalid(key) ==
  \/ key \notin DOMAIN compileIn.raw
  \/ compileIn.raw[key] \in {Str("abc"), Str("")}

\* C23: a query whose limit is absent or invalid is executed with limit 10,
\* and a query whose offset is absent or invalid is executed with offset 0:
\* no offset call skips rows.
C23_PaginationDefaults ==
  (compileIn.fn = "paginate" /\ compileOut.done) =>
    /\ AbsentOrInvalid("limit") =>
         \E i \in 1..Len(compileOut.value.calls) :
           compileOut.value.calls[i] = Call("limit", "limit", 10)
    /\ AbsentOrInvalid("offset") =>
         \A i \in 1..Len(compileOut.value.calls) :
           compileOut.value.calls[i].method = "offset"
             => compileOut.value.calls[i].arg = 0

\* C25: for every entry of windowFunctions and of advancedWindows the
\* function call of the compiled projection is ROW_NUMBER() when the type is
\* row_number, and otherwise TYPE(field), or TYPE(*) when no field is given.
C25_WindowFunctionCall ==
  (compileIn.fn = "window" /\ compileOut.done) =>
    LET wf == compileIn.entry.wf
    IN compileOut.value.call =
         IF wf.type = "row_number" THEN <<"ROW_NUMBER()">>
         ELSE <<wf.type, "(", FieldOrStar(wf), ")">>

\* C26: whereGroups is compiled as a tree: inside the grouped predicate of a
\* group, each element that is a clause is applied with its own field,
\* operator and value, joined with OR if tagged OR and with AND otherwise,
\* and each element that is a group becomes a grouped predicate of its own,
\* never a predicate on no field.
C26_WhereGroupsTree ==
  (compileIn.fn = "whereGroup" /\ compileOut.done) =>
    LET clauses == compileIn.group.clauses
        inner == compileOut.value.inner
    IN /\ Len(inner) = Len(clauses)
       /\ \A i \in 1..Len(clauses) :
            IF "clauses" \in DOMAIN clauses[i]
            THEN inner[i].field # Undefined
            ELSE /\ inner[i].field = Str(clauses[i].field)
                 /\ inner[i].operator = Str(clauses[i].operator)
                 /\ inner[i].value = clauses[i].value
                 /\ inner[i].method =
                      IF "boolean" \in DOMAIN clauses[i]
                         /\ clauses[i].boolean = "OR"
                      THEN "orWhere" ELSE "where"

(***************************************************************************)
(* Claims about the policy a decision uses and what follows a decision.    *)
(***************************************************************************)
\* what the permission store holds for the table of the call in flight
PolicyInStore ==
  IF gateCall.tableName \in DOMAIN permStore
  THEN [found |-> TRUE, operations |-> permStore[gateCall.tableName].operations]
  ELSE [found |-> FALSE]

GateAllowedAll ==
  /\ gateResult.kind = "rows"
  /\ Len(gateCall.rows.items) > 0
  /\ gateResult.rows.items = gateCall.rows.items

\* C28: with enforceRls on and a user context supplied, a create, update or
\* delete whose payload the gate allowed has issued the corresponding write
\* with exactly the allowed records by the time the handler is done.
C28_AuthorizedWriteIssued ==
  (enforceRls /\ IsMutation /\ req.hasUser /\ fwPc = "done" /\ GateAllowedAll) =>
    \E i \in 1..Len(issued) :
      /\ issued[i].action = req.kind
      /\ issued[i].payload.items = gateResult.rows.items

\* C29: once schema.create has returned for a table, an enforcePermissions
\* call for that table that starts afterwards finds the table's entry in
\* the permission store: it does not fail with the operation-not-allowed
\* error for lack of one.
C29_DefaultsStoredOnReturn ==
  (schema.callAfterReturn /\ gatePc \in {"decide", "done"}) =>
    /\ tablePermissions.found
    /\ gatePc = "done" =>
         ~(gateResult.kind = "error" /\ gateResult.error = "OperationNotAllowed")

====
